---- MODULE Spec2Model ----
(***************************************************************************)
(* A model of three pieces of the AV1 codec:                               *)
(*   av1/common/entropy.h          get_entropy_context,                    *)
(*                                 av1_get_cat6_extrabits_size,            *)
(*                                 av1_average_tile_*_cdfs (prototypes)    *)
(*   av1/encoder/cost.c            av1_cost_tokens_from_cdf                *)
(*   av1/common/x86/selfguided_avx2.c   the self-guided restoration filter *)
(*                                                                         *)
(* Machine words are modelled with their width.  A 32-bit lane is kept as  *)
(* the signed value of its bit pattern (-2^31 .. 2^31-1) and every lane    *)
(* operation is computed on 16-bit limbs, so that wrap-around is what the  *)
(* instruction produces.                                                   *)
(***************************************************************************)
EXTENDS Integers, Sequences, FiniteSets, TLC

VARIABLES
  \* ---- entropy.h ----
  tx_size,      \* TX_SIZE argument
  a_ctx,        \* const ENTROPY_CONTEXT *a  (bytes, index 0 first)
  l_ctx,        \* const ENTROPY_CONTEXT *l
  ctx,          \* value returned by get_entropy_context (-1: not yet called)
  bits,         \* value returned by av1_get_cat6_extrabits_size (-1: not yet)
  bit_depth,    \* aom_bit_depth_t / int bit_depth (0: not chosen)
  epc,          \* position of the entropy.h caller
  \* ---- cost.c: av1_cost_tokens_from_cdf ----
  cdf,          \* const aom_cdf_prob *cdf (stored, inverse values; index 0 first)
  inv_map,      \* const int *inv_map, or NULL
  costs,        \* int *costs
  i,            \* loop counter
  prev_cdf,     \* aom_cdf_prob prev_cdf
  p15s,         \* the arguments av1_cost_symbol was called with, in order
  cdf_reads,    \* the indices of cdf[] read so far
  cpc,          \* position inside av1_cost_tokens_from_cdf
  \* ---- selfguided_avx2.c ----
  dgd,          \* the input plane dat8 points into (a description of its samples)
  width,        \* int width
  height,       \* int height
  highbd,       \* int highbd
  sgr_bit_depth,\* int bit_depth of the restoration calls
  xbx0,         \* x_by_xplus1[0]: restoration.c has carried this entry as 0 and as 1
  Ctl, Dtl,     \* integral images of squares / of samples, indexed from the tl pointers
  ii_row,       \* the row counter i of integral_images
  Atl, Btl,     \* the a / b arrays of calc_ab, indexed from the tl pointers
  sum1, sum2,   \* the registers boxsum_from_ii returned for the position in box
  box,          \* the position <<i, j, r>> boxsum_from_ii was last called for
  eps,          \* int eps (index into sgr_params)
  flt1, flt2,   \* int32_t *flt1, *flt2 (inside tmpbuf)
  xqd,          \* const int *xqd
  dst,          \* uint8_t *dst8
  dst_stride,   \* int dst_stride
  mix,          \* the blended value w of each stored sample, before packing
  spc,          \* position inside the restoration calls
  \* ---- entropy.h: av1_average_tile_*_cdfs ----
  ec_ctxs,      \* FRAME_CONTEXT *ec_ctxs[]: one (cdf, count) per tile, in array order
  num_tiles,    \* int num_tiles
  fc_cdf,       \* the CDF merged into FRAME_CONTEXT *fc
  tpc,          \* position of the tile-averaging caller
  \* ---- selfguided_avx2.c: cross_sum on its own ----
  xs_buf,       \* const int32_t *buf: three rows of ten entries, buf at row 1, column 1
  xs_out,       \* the register cross_sum returned
  xpc           \* position of the cross_sum caller

entropyVars == <<tx_size, a_ctx, l_ctx, ctx, bits, bit_depth, epc>>
costVars == <<cdf, inv_map, costs, i, prev_cdf, p15s, cdf_reads, cpc>>

sgrVars == <<dgd, width, height, highbd, sgr_bit_depth, xbx0, Ctl, Dtl, ii_row,
             Atl, Btl, sum1, sum2, box, eps, flt1, flt2, xqd, dst, dst_stride, mix, spc>>

tileVars == <<ec_ctxs, num_tiles, fc_cdf, tpc>>

crossVars == <<xs_buf, xs_out, xpc>>

vars == <<entropyVars, costVars, sgrVars, tileVars, crossVars>>

(***************************************************************************)
(* 16-bit limb arithmetic for 32-bit lanes.                                *)
(***************************************************************************)
W16 == 65536
H16 == 32768

Lo16(x) == x % W16
Hi16(x) == (x \div W16) % W16

\* the signed 32-bit value whose bit pattern has the limbs hi, lo
Word32(hi, lo) == IF hi >= H16 THEN (hi - W16) * W16 + lo ELSE hi * W16 + lo

\* sign extension of a 16-bit pattern
S16(x) == IF x >= H16 THEN x - W16 ELSE x

\* values whose sum or difference cannot leave 32 bits
Small30(x) == x > -1073741824 /\ x < 1073741824

\* values whose product cannot leave 32 bits
Small15(x) == x > -32768 /\ x < 32768

\* _mm256_add_epi32, one lane (the limbs are needed only when the sum can wrap)
add_epi32(x, y) ==
  IF Small30(x) /\ Small30(y) THEN x + y
  ELSE LET lo == Lo16(x) + Lo16(y)
           hi == Hi16(x) + Hi16(y) + (lo \div W16)
       IN  Word32(hi % W16, lo % W16)

\* _mm256_sub_epi32, one lane
sub_epi32(x, y) ==
  IF Small30(x) /\ Small30(y) THEN x - y
  ELSE LET lo == Lo16(x) - Lo16(y)
           hi == Hi16(x) - Hi16(y) + (lo \div W16)
       IN  Word32(hi % W16, lo % W16)

\* (x * y) mod 2^16 for 16-bit x, y, without leaving 31 bits
MulLo16(x, y) == ((x * (y % 256)) + ((x * (y \div 256)) % 256) * 256) % W16

\* the two limbs <<hi, lo>> of the 32-bit product of 16-bit x, y
MulWide16(x, y) ==
  LET t0 == x * (y % 256)
      t1 == x * (y \div 256)
      mid == t0 + (t1 % 256) * 256
  IN  <<(t1 \div 256) + (mid \div W16), mid % W16>>

\* _mm256_mullo_epi32, one lane: the low 32 bits of the product
mullo_epi32(x, y) ==
  IF Small15(x) /\ Small15(y) THEN x * y
  ELSE LET ll == MulWide16(Lo16(x), Lo16(y))
           cross == MulLo16(Hi16(x), Lo16(y)) + MulLo16(Lo16(x), Hi16(y))
       IN  Word32((ll[1] + cross) % W16, ll[2])

\* _mm256_madd_epi16, one 32-bit lane: the two signed 16-bit products, added
madd_epi16(x, y) ==
  add_epi32(S16(Lo16(x)) * S16(Lo16(y)), S16(Hi16(x)) * S16(Hi16(y)))

\* _mm256_srli_epi32 / _mm256_srl_epi32, one lane: logical shift right, 0 < k < 32
srli_epi32(x, k) ==
  IF k = 0 THEN x
  ELSE IF x >= 0 THEN x \div (2 ^ k)
  ELSE IF k <= 16 THEN Hi16(x) * (2 ^ (16 - k)) + (Lo16(x) \div (2 ^ k))
  ELSE Hi16(x) \div (2 ^ (k - 16))

\* _mm256_srai_epi32, one lane: arithmetic shift right
srai_epi32(x, k) == x \div (2 ^ k)

\* _mm256_slli_epi32, one lane
slli_epi32(x, k) == mullo_epi32(x, 2 ^ k)

min_epi32(x, y) == IF x < y THEN x ELSE y
max_epi32(x, y) == IF x > y THEN x ELSE y

(***************************************************************************)
(* av1/common/entropy.h                                                    *)
(***************************************************************************)
\* enum TX_SIZE (av1/common/enums.h, with CONFIG_TX64X64)
TX_4X4 == 0
TX_8X8 == 1
TX_16X16 == 2
TX_32X32 == 3
TX_64X64 == 4
TX_4X8 == 5
TX_8X4 == 6
TX_8X16 == 7
TX_16X8 == 8
TX_16X32 == 9
TX_32X16 == 10
TX_32X64 == 11
TX_64X32 == 12
TX_4X16 == 13
TX_16X4 == 14
TX_8X32 == 15
TX_32X8 == 16
TX_16X64 == 17
TX_64X16 == 18
TX_SIZES_ALL == 19

TxSizes == 0 .. (TX_SIZES_ALL - 1)

\* tx_size_wide[], tx_size_high[] (av1/common/common_data.h), indexed from 1
tx_size_wide ==
  <<4, 8, 16, 32, 64, 4, 8, 8, 16, 16, 32, 32, 64, 4, 16, 8, 32, 16, 64>>
tx_size_high ==
  <<4, 8, 16, 32, 64, 8, 4, 16, 8, 32, 16, 64, 32, 16, 4, 32, 8, 64, 16>>

\* txsize_sqr_up_map[] (av1/common/common_data.h), indexed from 1
txsize_sqr_up_map ==
  <<TX_4X4, TX_8X8, TX_16X16, TX_32X32, TX_64X64, TX_8X8, TX_8X8, TX_16X16,
    TX_16X16, TX_32X32, TX_32X32, TX_64X64, TX_64X64, TX_16X16, TX_16X16,
    TX_32X32, TX_32X32, TX_64X64, TX_64X64>>

CAT6_BIT_SIZE == 18

AOMMIN(x, y) == IF x < y THEN x ELSE y
AOMMAX(x, y) == IF x > y THEN x ELSE y

\* (bits + 3) & ~3 for a non-negative int
RoundUp4(x) == ((x + 3) \div 4) * 4

av1_get_cat6_extrabits_size_nocap(tx, bd) ==
  LET up == txsize_sqr_up_map[tx + 1]
      t == IF up > TX_32X32 THEN TX_32X32 ELSE up
      tx_offset == t - TX_4X4
      b == bd + 3 + tx_offset
  IN  RoundUp4(b)

av1_get_cat6_extrabits_size(tx, bd) ==
  LET up == txsize_sqr_up_map[tx + 1]
      t == IF up > TX_32X32 THEN TX_32X32 ELSE up
      tx_offset == t - TX_4X4
      b == bd + 3 + tx_offset
  IN  AOMMIN(CAT6_BIT_SIZE, RoundUp4(b))

\* a 16/32/64-bit load through a cast pointer: the n bytes at p, p+1, ...
LoadBytes(arr, p, n) == [k \in 0 .. (n - 1) |-> arr[p + k]]

\* the bitwise OR of two bytes
RECURSIVE ByteOr(_, _)
ByteOr(x, y) ==
  IF x = 0 THEN y
  ELSE IF y = 0 THEN x
  ELSE 2 * ByteOr(x \div 2, y \div 2) + (IF (x % 2 = 1) \/ (y % 2 = 1) THEN 1 ELSE 0)

\* the bitwise OR of two loaded words of the same width
WordOr(u, v) == [k \in DOMAIN u |-> ByteOr(u[k], v[k])]

\* !!word : 1 when the loaded word is not the zero word
NotNot(u) == IF \E k \in DOMAIN u : u[k] # 0 THEN 1 ELSE 0

combine_entropy_contexts_or(x, y) == IF x # 0 \/ y # 0 THEN 1 ELSE 0

combine_entropy_contexts(x, y) ==
  (IF x # 0 THEN 1 ELSE 0) + (IF y # 0 THEN 1 ELSE 0)

U8(arr) == IF arr[0] # 0 THEN 1 ELSE 0
U16(arr) == NotNot(LoadBytes(arr, 0, 2))
U32(arr) == NotNot(LoadBytes(arr, 0, 4))
U64(arr) == NotNot(LoadBytes(arr, 0, 8))
U64x2(arr) == NotNot(WordOr(LoadBytes(arr, 0, 8), LoadBytes(arr, 8, 8)))

\* the above_ec of each case of the switch
above_ec(tx, a) ==
  CASE tx = TX_4X4 -> U8(a)
    [] tx = TX_4X8 -> U8(a)
    [] tx = TX_8X4 -> U16(a)
    [] tx = TX_8X16 -> U16(a)
    [] tx = TX_16X8 -> U32(a)
    [] tx = TX_16X32 -> U32(a)
    [] tx = TX_32X16 -> U64(a)
    [] tx = TX_8X8 -> U16(a)
    [] tx = TX_16X16 -> U32(a)
    [] tx = TX_32X32 -> U64(a)
    [] tx = TX_64X64 -> U64x2(a)
    [] tx = TX_32X64 -> U64(a)
    [] tx = TX_64X32 -> U64x2(a)
    [] tx = TX_4X16 -> U8(a)
    [] tx = TX_16X4 -> U32(a)
    [] tx = TX_8X32 -> U16(a)
    [] tx = TX_32X8 -> U64(a)
    [] tx = TX_16X64 -> U32(a)
    [] tx = TX_64X16 -> U64x2(a)

left_ec_bad(tx, l) ==
  CASE tx = TX_4X4 -> U8(l)
    [] tx = TX_4X8 -> U16(l)
    [] tx = TX_8X4 -> U8(l)
    [] tx = TX_8X16 -> U32(l)
    [] tx = TX_16X8 -> U16(l)
    [] tx = TX_16X32 -> U32(l)
    [] tx = TX_32X16 -> U32(l)
    [] tx = TX_8X8 -> U16(l)
    [] tx = TX_16X16 -> U32(l)
    [] tx = TX_32X32 -> U64(l)
    [] tx = TX_64X64 -> U64x2(l)
    [] tx = TX_32X64 -> U64x2(l)
    [] tx = TX_64X32 -> U64(l)
    [] tx = TX_4X16 -> U32(l)
    [] tx = TX_16X4 -> U8(l)
    [] tx = TX_8X32 -> U64(l)
    [] tx = TX_32X8 -> U16(l)
    [] tx = TX_16X64 -> U64x2(l)
    [] tx = TX_64X16 -> U32(l)

\* the left_ec of each case of the switch
left_ec(tx, l) ==
  CASE tx = TX_4X4 -> U8(l)
    [] tx = TX_4X8 -> U16(l)
    [] tx = TX_8X4 -> U8(l)
    [] tx = TX_8X16 -> U32(l)
    [] tx = TX_16X8 -> U16(l)
    [] tx = TX_16X32 -> U64(l)
    [] tx = TX_32X16 -> U32(l)
    [] tx = TX_8X8 -> U16(l)
    [] tx = TX_16X16 -> U32(l)
    [] tx = TX_32X32 -> U64(l)
    [] tx = TX_64X64 -> U64x2(l)
    [] tx = TX_32X64 -> U64x2(l)
    [] tx = TX_64X32 -> U64(l)
    [] tx = TX_4X16 -> U32(l)
    [] tx = TX_16X4 -> U8(l)
    [] tx = TX_8X32 -> U64(l)
    [] tx = TX_32X8 -> U16(l)
    [] tx = TX_16X64 -> U64x2(l)
    [] tx = TX_64X16 -> U32(l)

get_entropy_context(tx, a, l) ==
  combine_entropy_contexts(above_ec(tx, a), left_ec(tx, l))

\* ---- inputs of the entropy.h model ----
CtxLen == 17            \* bytes of each context array (16 are the widest read)
CtxVals == {1, 128, 255}
BitDepths == {8, 10, 12}

\* a context array that is zero except for value v at p, and tail at the
\* last byte (which no transform size reads)
CtxArray(p, v, tail) ==
  [k \in 0 .. (CtxLen - 1) |->
     IF k = CtxLen - 1 THEN (IF p = k /\ v # 0 THEN v ELSE tail)
     ELSE IF k = p THEN v ELSE 0]

CtxArrays ==
  {CtxArray(p, v, t) : p \in 0 .. (CtxLen - 1), v \in CtxVals \cup {0}, t \in {0, 1}}

EntropyInit ==
  /\ tx_size \in TxSizes
  /\ a_ctx \in CtxArrays
  /\ l_ctx \in CtxArrays
  /\ ctx = -1
  /\ bits = -1
  /\ bit_depth = 0
  /\ epc = "call"
  \* cost.c is not run
  /\ cdf = <<>> /\ inv_map = <<>> /\ costs = <<>> /\ i = 0 /\ prev_cdf = 0
  /\ p15s = <<>> /\ cdf_reads = {} /\ cpc = "idle"
  \* the tiles are not averaged
  /\ ec_ctxs = <<>> /\ num_tiles = 0 /\ fc_cdf = <<>> /\ tpc = "idle"
  \* the restoration filter is not run
  /\ dgd = <<>> /\ width = 0 /\ height = 0 /\ highbd = 0 /\ sgr_bit_depth = 0
  /\ xbx0 = 0
  /\ Ctl = <<>> /\ Dtl = <<>> /\ ii_row = 0 /\ Atl = <<>> /\ Btl = <<>>
  /\ sum1 = <<>> /\ sum2 = <<>> /\ box = <<>> /\ eps = -1
  /\ flt1 = <<>> /\ flt2 = <<>> /\ xqd = <<>> /\ dst = <<>> /\ dst_stride = 0
  /\ mix = <<>> /\ spc = "idle"
  \* cross_sum is not called on its own
  /\ xs_buf = <<>> /\ xs_out = <<>> /\ xpc = "idle"

GetEntropyContext ==
  /\ epc = "call"
  /\ ctx' = get_entropy_context(tx_size, a_ctx, l_ctx)
  /\ epc' = "ctx"
  /\ UNCHANGED <<tx_size, a_ctx, l_ctx, bits, bit_depth>>

GetCat6ExtrabitsSize ==
  /\ epc = "ctx"
  /\ \E bd \in BitDepths :
       /\ bit_depth' = bd
       /\ bits' = av1_get_cat6_extrabits_size(tx_size, bd)
  /\ epc' = "done"
  /\ UNCHANGED <<tx_size, a_ctx, l_ctx, ctx>>

EntropyNext ==
  \/ GetEntropyContext /\ UNCHANGED <<costVars, sgrVars, tileVars, crossVars>>
  \/ GetCat6ExtrabitsSize /\ UNCHANGED <<costVars, sgrVars, tileVars, crossVars>>

(***************************************************************************)
(* av1/encoder/cost.c                                                      *)
(***************************************************************************)
\* aom_dsp/prob.h, aom_dsp/entcode.h, av1/encoder/cost.h
CDF_PROB_BITS == 15
CDF_PROB_TOP == 32768
EC_MIN_PROB == 4
AV1_PROB_COST_SHIFT == 9

\* aom_cdf_prob is uint16_t
U16Trunc(x) == x % W16

\* AOM_ICDF(x): the stored value is CDF_PROB_TOP minus the cumulative probability
AOM_ICDF(x) == CDF_PROB_TOP - x

\* round(-log2(i/256.) * (1 << AV1_PROB_COST_SHIFT)), entry i at position i + 1
av1_prob_cost ==
  <<
    4096, 4096, 3584, 3284, 3072, 2907, 2772, 2659, 2560, 2473, 2395, 2325, 2260,
    2201, 2147, 2096, 2048, 2003, 1961, 1921, 1883, 1847, 1813, 1780, 1748, 1718,
    1689, 1661, 1635, 1609, 1584, 1559, 1536, 1513, 1491, 1470, 1449, 1429, 1409,
    1390, 1371, 1353, 1335, 1318, 1301, 1284, 1268, 1252, 1236, 1221, 1206, 1192,
    1177, 1163, 1149, 1136, 1123, 1110, 1097, 1084, 1072, 1059, 1047, 1036, 1024,
    1013, 1001, 990, 979, 968, 958, 947, 937, 927, 917, 907, 897, 887,
    878, 868, 859, 850, 841, 832, 823, 814, 806, 797, 789, 780, 772,
    764, 756, 748, 740, 732, 724, 717, 709, 702, 694, 687, 680, 673,
    665, 658, 651, 644, 637, 631, 624, 617, 611, 604, 598, 591, 585,
    578, 572, 566, 560, 554, 547, 541, 535, 530, 524, 518, 512, 506,
    501, 495, 489, 484, 478, 473, 467, 462, 456, 451, 446, 441, 435,
    430, 425, 420, 415, 410, 405, 400, 395, 390, 385, 380, 375, 371,
    366, 361, 356, 352, 347, 343, 338, 333, 329, 324, 320, 316, 311,
    307, 302, 298, 294, 289, 285, 281, 277, 273, 268, 264, 260, 256,
    252, 248, 244, 240, 236, 232, 228, 224, 220, 216, 212, 209, 205,
    201, 197, 194, 190, 186, 182, 179, 175, 171, 168, 164, 161, 157,
    153, 150, 146, 143, 139, 136, 132, 129, 125, 122, 119, 115, 112,
    109, 105, 102, 99, 95, 92, 89, 86, 82, 79, 76, 73, 70,
    66, 63, 60, 57, 54, 51, 48, 45, 42, 38, 35, 32, 29,
    26, 23, 20, 18, 15, 12, 9, 6, 3
  >>

RECURSIVE get_msb(_)
get_msb(n) == IF n < 2 THEN 0 ELSE 1 + get_msb(n \div 2)

\* get_prob(num, den): round(256 * num / den) clipped to [1, 255]
get_prob(num, den) ==
  LET p == (num * 256 + (den \div 2)) \div den
  IN  IF p > 255 THEN 255 ELSE IF p < 1 THEN 1 ELSE p

av1_cost_zero(prob) == av1_prob_cost[prob + 1]
av1_cost_literal(n) == n * (2 ^ AV1_PROB_COST_SHIFT)

\* the cost of a symbol with probability p15 / 2^15
av1_cost_symbol(p15) ==
  LET shift == CDF_PROB_BITS - 1 - get_msb(p15)
  IN  av1_cost_zero(get_prob(p15 * (2 ^ shift), CDF_PROB_TOP)) + av1_cost_literal(shift)

ClampMinProb_none(p15) == p15

\* p15 = (p15 < EC_MIN_PROB) ? EC_MIN_PROB : p15;
ClampMinProb(p15) == IF p15 < EC_MIN_PROB THEN EC_MIN_PROB ELSE p15

\* prev_cdf set to half the cumulative probability of the symbol
NextPrevCdf_half(prev, icdf, p15) == U16Trunc(icdf \div 2)

\* the alternative kept in the comment of the loop: prev_cdf += p15
NextPrevCdf_accumulate(prev, icdf, p15) == U16Trunc(prev + p15)

\* prev_cdf = AOM_ICDF(cdf[i]);
NextPrevCdf(prev, icdf, p15) == U16Trunc(icdf)

\* a null pointer: the array with no element
NULL == <<>>

CostIndex_direct(map, k) == k

\* costs[inv_map[i]] when an inverse map is given, costs[i] otherwise
CostIndex(map, k) == IF map # NULL THEN map[k] ELSE k

\* ---- inputs of the cost.c model ----
MaxSyms == 4        \* largest alphabet: the sentinel is at index <= MaxSyms - 1
CostPad == 2        \* entries of costs[] beyond the largest alphabet
CdfPad == 2         \* entries of cdf[] beyond the largest sentinel index
COST_UNSET == -1    \* content of costs[] before the call

\* cumulative probabilities a CDF entry may hold below CDF_PROB_TOP
Cuts == {0, 1, 4, 5, 6, 128, 16383, 16384, 32763, 32764, 32767}

\* the cumulative probabilities of the symbols before the last one
CutSeqs(k) ==
  {s \in [0 .. (k - 1) -> Cuts] :
     /\ \A j \in 0 .. (k - 2) : s[j] <= s[j + 1]
     /\ s[k - 1] >= 1}

\* a CDF array of k + 1 symbols: inverse cumulative values, the sentinel at
\* index k, then entries the walk must not look at
CdfArray(s, k, tail) ==
  [j \in 0 .. (MaxSyms - 1 + CdfPad) |->
     IF j < k THEN AOM_ICDF(s[j])
     ELSE IF j = k THEN AOM_ICDF(CDF_PROB_TOP)
     ELSE tail]

Reverse(k) == [j \in 0 .. k |-> k - j]
Rotate(k) == [j \in 0 .. k |-> (j + 1) % (k + 1)]

CostInit ==
  /\ \E k \in 1 .. (MaxSyms - 1) : \E s \in CutSeqs(k) : \E tail \in {0, 7, CDF_PROB_TOP} :
       /\ cdf = CdfArray(s, k, tail)
       /\ inv_map \in {NULL, Reverse(k), Rotate(k)}
  /\ costs = [j \in 0 .. (MaxSyms - 1 + CostPad) |-> COST_UNSET]
  /\ i = 0
  /\ prev_cdf = 0
  /\ p15s = <<>>
  /\ cdf_reads = {}
  /\ cpc = "loop"
  \* entropy.h is not run
  /\ tx_size = 0 /\ a_ctx = <<>> /\ l_ctx = <<>> /\ ctx = -1 /\ bits = -1
  /\ bit_depth = 0 /\ epc = "idle"
  \* the tiles are not averaged
  /\ ec_ctxs = <<>> /\ num_tiles = 0 /\ fc_cdf = <<>> /\ tpc = "idle"
  \* the restoration filter is not run
  /\ dgd = <<>> /\ width = 0 /\ height = 0 /\ highbd = 0 /\ sgr_bit_depth = 0
  /\ xbx0 = 0
  /\ Ctl = <<>> /\ Dtl = <<>> /\ ii_row = 0 /\ Atl = <<>> /\ Btl = <<>>
  /\ sum1 = <<>> /\ sum2 = <<>> /\ box = <<>> /\ eps = -1
  /\ flt1 = <<>> /\ flt2 = <<>> /\ xqd = <<>> /\ dst = <<>> /\ dst_stride = 0
  /\ mix = <<>> /\ spc = "idle"
  \* cross_sum is not called on its own
  /\ xs_buf = <<>> /\ xs_out = <<>> /\ xpc = "idle"

\* one iteration of  for (i = 0;; ++i) { ... }
CostLoop ==
  /\ cpc = "loop"
  /\ LET icdf == AOM_ICDF(cdf[i])
         p15 == ClampMinProb(U16Trunc(icdf - prev_cdf))
     IN  /\ prev_cdf' = NextPrevCdf(prev_cdf, icdf, p15)
         /\ costs' = [costs EXCEPT ![CostIndex(inv_map, i)] = av1_cost_symbol(p15)]
         /\ p15s' = Append(p15s, p15)
  /\ cdf_reads' = cdf_reads \cup {i}
  /\ IF cdf[i] = AOM_ICDF(CDF_PROB_TOP)
       THEN cpc' = "done" /\ i' = i
       ELSE cpc' = "loop" /\ i' = i + 1
  /\ UNCHANGED <<cdf, inv_map>>

CostNext == CostLoop /\ UNCHANGED <<entropyVars, sgrVars, tileVars, crossVars>>

(***************************************************************************)
(* av1/common/x86/selfguided_avx2.c                                        *)
(***************************************************************************)

\* ---- av1/common/restoration.h, av1/common/restoration.c ----
SGRPROJ_BORDER_VERT == 3
SGRPROJ_BORDER_HORZ == 3
SGRPROJ_RST_BITS == 4
SGRPROJ_PRJ_BITS == 7
SGRPROJ_SGR_BITS == 8
SGRPROJ_SGR == 256
SGRPROJ_MTABLE_BITS == 20
SGRPROJ_RECIP_BITS == 12
SGRPROJ_PARAMS == 16
SGRPROJ_PRJ_MIN0 == -96
SGRPROJ_PRJ_MAX0 == 31
SGRPROJ_PRJ_MIN1 == -32
SGRPROJ_PRJ_MAX1 == 95

\* const sgr_params_type sgr_params[SGRPROJ_PARAMS]: r1, e1, r2, e2
sgr_params ==
  << [r1 |-> 2, e1 |-> 12, r2 |-> 1, e2 |-> 4],  [r1 |-> 2, e1 |-> 15, r2 |-> 1, e2 |-> 6],
     [r1 |-> 2, e1 |-> 18, r2 |-> 1, e2 |-> 8],  [r1 |-> 2, e1 |-> 20, r2 |-> 1, e2 |-> 9],
     [r1 |-> 2, e1 |-> 22, r2 |-> 1, e2 |-> 10], [r1 |-> 2, e1 |-> 25, r2 |-> 1, e2 |-> 11],
     [r1 |-> 2, e1 |-> 35, r2 |-> 1, e2 |-> 12], [r1 |-> 2, e1 |-> 45, r2 |-> 1, e2 |-> 13],
     [r1 |-> 2, e1 |-> 55, r2 |-> 1, e2 |-> 14], [r1 |-> 2, e1 |-> 65, r2 |-> 1, e2 |-> 15],
     [r1 |-> 2, e1 |-> 75, r2 |-> 1, e2 |-> 16], [r1 |-> 2, e1 |-> 30, r2 |-> 1, e2 |-> 2],
     [r1 |-> 2, e1 |-> 50, r2 |-> 1, e2 |-> 12], [r1 |-> 2, e1 |-> 60, r2 |-> 1, e2 |-> 13],
     [r1 |-> 2, e1 |-> 70, r2 |-> 1, e2 |-> 14], [r1 |-> 2, e1 |-> 80, r2 |-> 1, e2 |-> 15] >>

\* sgrproj_mtable[e - 1][n - 1]: 2^SGRPROJ_MTABLE_BITS / (n * n * e), rounded
sgrproj_mtable(e, n) ==
  ((2 ^ SGRPROJ_MTABLE_BITS) + ((n * n * e) \div 2)) \div (n * n * e)

\* one_by_x[n - 1]: 2^SGRPROJ_RECIP_BITS / n, rounded
one_by_x(n) == ((2 ^ SGRPROJ_RECIP_BITS) + (n \div 2)) \div n

\* x_by_xplus1[z]: 256 * z / (z + 1), rounded; 256 at z = 255; z0 is the entry for z = 0
x_by_xplus1(z, z0) ==
  IF z = 0 THEN z0
  ELSE IF z = 255 THEN 256
  ELSE (256 * z + ((z + 1) \div 2)) \div (z + 1)

\* decode_xq
decode_xq(q) == <<q[1], (2 ^ SGRPROJ_PRJ_BITS) - q[1] - q[2]>>

\* ALIGN_POWER_OF_TWO(x, 3)
ALIGN8(x) == ((x + 7) \div 8) * 8

\* ---- the input plane ----
\* The sample at row i, column j counted from dat8; the rows and columns
\* around the unit (negative, or past width / height) are the frame's
\* samples there.
Sample(pl, row, col) ==
  CASE pl.kind = "flat" -> pl.hi
    [] pl.kind = "spot" -> IF row = 0 /\ col = 0 THEN pl.hi ELSE pl.lo
    [] pl.kind = "checker" -> IF (row + col) % 2 = 0 THEN pl.hi ELSE pl.lo
    [] pl.kind = "ramp" ->
         pl.lo + ((3 * (row + 8) + 5 * (col + 8)) % 7) * ((pl.hi - pl.lo) \div 6)

\* ---- registers: eight 32-bit lanes, lane 0 first ----
Lanes(F(_)) == <<F(0), F(1), F(2), F(3), F(4), F(5), F(6), F(7)>>

\* yy_loadu_256 / yy_storeu_256 on an int32_t array
yy_loadu_256(buf, p) == Lanes(LAMBDA k : buf[p + k])

yy_storeu_256(buf, p, v) ==
  [buf EXCEPT ![p] = v[1], ![p + 1] = v[2], ![p + 2] = v[3], ![p + 3] = v[4],
              ![p + 4] = v[5], ![p + 5] = v[6], ![p + 6] = v[7], ![p + 7] = v[8]]

\* yy256_load_extend_8_32: eight bytes at the given row, columns col .. col + 7
yy256_load_extend_8_32(pl, row, col) == Lanes(LAMBDA k : Sample(pl, row, col + k) % 256)

\* yy256_load_extend_16_32: eight halfwords
yy256_load_extend_16_32(pl, row, col) == Lanes(LAMBDA k : Sample(pl, row, col + k) % W16)

\* scan_32 without the carry from the low 128-bit half into the high one
scan_32_halves(x) ==
  LET x01 == <<0, x[1], x[2], x[3], 0, x[5], x[6], x[7]>>
      x02 == Lanes(LAMBDA k : add_epi32(x[k + 1], x01[k + 1]))
      x03 == <<0, 0, x02[1], x02[2], 0, 0, x02[5], x02[6]>>
  IN  Lanes(LAMBDA k : add_epi32(x02[k + 1], x03[k + 1]))

\* scan_32, with the intermediate registers of the source
scan_32(x) ==
  LET x01 == <<0, x[1], x[2], x[3], 0, x[5], x[6], x[7]>>
      x02 == Lanes(LAMBDA k : add_epi32(x[k + 1], x01[k + 1]))
      x03 == <<0, 0, x02[1], x02[2], 0, 0, x02[5], x02[6]>>
      x04 == Lanes(LAMBDA k : add_epi32(x02[k + 1], x03[k + 1]))
      s == x04[4]
      s02 == <<0, 0, 0, 0, s, s, s, s>>
  IN  Lanes(LAMBDA k : add_epi32(x04[k + 1], s02[k + 1]))

\* memset(buf, 0, ...)
ZeroBuf(n) == [k \in 0 .. (n - 1) |-> 0]

\* memset(A, 0, sizeof(*A) * (width + 1))
ZeroTopRow(buf, w) == [k \in DOMAIN buf |-> IF k <= w THEN 0 ELSE buf[k]]

\* One iteration of the outer loop (row i) of integral_images / of
\* integral_images_highbd; hb tells which load is used.  The plane is read
\* from row oi, column oj of dgd on (src = dgd0).  st carries A, B and the two
\* ldiff registers through the blocks of eight columns, the n-th on.
RECURSIVE integral_row_blocks(_, _, _, _, _, _, _, _, _)
integral_row_blocks(hb, pl, oi, oj, w, stride, row, st, n) ==
  IF 8 * n >= w THEN st
  ELSE
    LET j == 8 * n
        ABj == 1 + j
        above1 == yy_loadu_256(st.B, ABj + row * stride)
        above2 == yy_loadu_256(st.A, ABj + row * stride)
        x1 == IF hb = 1 THEN yy256_load_extend_16_32(pl, row + oi, j + oj)
                        ELSE yy256_load_extend_8_32(pl, row + oi, j + oj)
        x2 == Lanes(LAMBDA k : madd_epi16(x1[k + 1], x1[k + 1]))
        sc1 == scan_32(x1)
        sc2 == scan_32(x2)
        row1 == Lanes(LAMBDA k : add_epi32(add_epi32(sc1[k + 1], above1[k + 1]), st.ldiff1))
        row2 == Lanes(LAMBDA k : add_epi32(add_epi32(sc2[k + 1], above2[k + 1]), st.ldiff2))
    IN  integral_row_blocks(hb, pl, oi, oj, w, stride, row,
          [A |-> yy_storeu_256(st.A, ABj + (row + 1) * stride, row2),
           B |-> yy_storeu_256(st.B, ABj + (row + 1) * stride, row1),
           ldiff1 |-> sub_epi32(row1[8], above1[8]),
           ldiff2 |-> sub_epi32(row2[8], above2[8])],
          n + 1)

\* row i of integral_images: zero the left column, then the blocks
integral_images(pl, oi, oj, w, row, A, B, stride) ==
  integral_row_blocks(0, pl, oi, oj, w, stride, row,
    [A |-> [A EXCEPT ![(row + 1) * stride] = 0],
     B |-> [B EXCEPT ![(row + 1) * stride] = 0], ldiff1 |-> 0, ldiff2 |-> 0], 0)

\* row i of integral_images_highbd
integral_images_highbd(pl, oi, oj, w, row, A, B, stride) ==
  integral_row_blocks(1, pl, oi, oj, w, stride, row,
    [A |-> [A EXCEPT ![(row + 1) * stride] = 0],
     B |-> [B EXCEPT ![(row + 1) * stride] = 0], ldiff1 |-> 0, ldiff2 |-> 0], 0)

\* boxsum_from_ii with the right-hand corners one column further right
boxsum_from_ii_wide(ii, p, stride, r) ==
  LET tl == yy_loadu_256(ii, p - (r + 1) - (r + 1) * stride)
      tr == yy_loadu_256(ii, p + (r + 1) - (r + 1) * stride)
      bl == yy_loadu_256(ii, p - (r + 1) + r * stride)
      br == yy_loadu_256(ii, p + (r + 1) + r * stride)
      u == Lanes(LAMBDA k : sub_epi32(tr[k + 1], tl[k + 1]))
      v == Lanes(LAMBDA k : sub_epi32(br[k + 1], bl[k + 1]))
  IN  Lanes(LAMBDA k : sub_epi32(v[k + 1], u[k + 1]))

\* the right-hand corners one column further right
boxsum_corners_wide(p, stride, r) ==
  << p - (r + 1) - (r + 1) * stride, p + (r + 1) - (r + 1) * stride,
     p - (r + 1) + r * stride, p + (r + 1) + r * stride >>

\* the addresses of the four loads of boxsum_from_ii: tl, tr, bl, br
boxsum_corners(p, stride, r) ==
  << p - (r + 1) - (r + 1) * stride, p + (r + 0) - (r + 1) * stride,
     p - (r + 1) + r * stride, p + (r + 0) + r * stride >>

\* boxsum_from_ii
boxsum_from_ii(ii, p, stride, r) ==
  LET tl == yy_loadu_256(ii, boxsum_corners(p, stride, r)[1])
      tr == yy_loadu_256(ii, boxsum_corners(p, stride, r)[2])
      bl == yy_loadu_256(ii, boxsum_corners(p, stride, r)[3])
      br == yy_loadu_256(ii, boxsum_corners(p, stride, r)[4])
      u == Lanes(LAMBDA k : sub_epi32(tr[k + 1], tl[k + 1]))
      v == Lanes(LAMBDA k : sub_epi32(br[k + 1], bl[k + 1]))
  IN  Lanes(LAMBDA k : sub_epi32(v[k + 1], u[k + 1]))

\* round_for_shift, one lane
round_for_shift(shift) == (2 ^ shift) \div 2

\* compute_p without the _mm256_max_epi32
compute_p_nomax(s1, s2, bd, n) ==
  IF bd > 8
    THEN LET a == srli_epi32(add_epi32(s2, round_for_shift(2 * (bd - 8))), 2 * (bd - 8))
             b == srli_epi32(add_epi32(s1, round_for_shift(bd - 8)), bd - 8)
             bb == madd_epi16(b, b)
         IN  sub_epi32(mullo_epi32(a, n), bb)
    ELSE LET bb == madd_epi16(s1, s1)
             an == mullo_epi32(s2, n)
         IN  sub_epi32(an, bb)

\* compute_p, one lane
compute_p(s1, s2, bd, n) ==
  IF bd > 8
    THEN LET a == srli_epi32(add_epi32(s2, round_for_shift(2 * (bd - 8))), 2 * (bd - 8))
             b == srli_epi32(add_epi32(s1, round_for_shift(bd - 8)), bd - 8)
             bb == madd_epi16(b, b)
             an == max_epi32(mullo_epi32(a, n), bb)
         IN  sub_epi32(an, bb)
    ELSE LET bb == madd_epi16(s1, s1)
             an == mullo_epi32(s2, n)
         IN  sub_epi32(an, bb)

\* CONFIG_DEBUG of aom_config.h: the release build
CONFIG_DEBUG == 0

\* the mask the debug build applies to lane k of sum1 and sum2
DebugMask(w, j, k, x) ==
  IF CONFIG_DEBUG = 1 /\ k >= AOMMAX(0, w + 1 - j) THEN 0 ELSE x

\* z without the cap at 255
calc_z_nomin(p, s) ==
  srli_epi32(add_epi32(mullo_epi32(p, s), round_for_shift(SGRPROJ_MTABLE_BITS)),
             SGRPROJ_MTABLE_BITS)

\* z of calc_ab, one lane
calc_z(p, s) ==
  min_epi32(srli_epi32(add_epi32(mullo_epi32(p, s), round_for_shift(SGRPROJ_MTABLE_BITS)),
                       SGRPROJ_MTABLE_BITS), 255)

\* b_res of calc_ab, one lane
calc_b(a_res, s1, one_over_n) ==
  LET a_complement == sub_epi32(SGRPROJ_SGR, a_res)
      a_comp_over_n == madd_epi16(a_complement, one_over_n)
      b_int == mullo_epi32(a_comp_over_n, s1)
  IN  srli_epi32(add_epi32(b_int, round_for_shift(SGRPROJ_RECIP_BITS)), SGRPROJ_RECIP_BITS)

\* The iterations of the two loops of calc_ab from the n-th on.  org is the
\* index of position (0, 0) in the four arrays; st carries A and B.
RECURSIVE calc_ab_blocks(_, _, _, _, _, _, _, _, _, _, _, _)
calc_ab_blocks(st, C, D, org, w, h, stride, e, bd, r, z0, n) ==
  LET nb == (w + 2 + 7) \div 8
  IN  IF n = (h + 2) * nb THEN st
      ELSE
        LET row == (n \div nb) - 1
            j == 8 * (n % nb) - 1
            nn == (2 * r + 1) * (2 * r + 1)
            s == sgrproj_mtable(e, nn)
            one_over_n == one_by_x(nn)
            pre_sum1 == boxsum_from_ii(D, org + row * stride + j, stride, r)
            pre_sum2 == boxsum_from_ii(C, org + row * stride + j, stride, r)
            s1 == Lanes(LAMBDA k : DebugMask(w, j, k, pre_sum1[k + 1]))
            s2 == Lanes(LAMBDA k : DebugMask(w, j, k, pre_sum2[k + 1]))
            p == Lanes(LAMBDA k : compute_p(s1[k + 1], s2[k + 1], bd, nn))
            z == Lanes(LAMBDA k : calc_z(p[k + 1], s))
            a_res == Lanes(LAMBDA k : x_by_xplus1(z[k + 1], z0))
            b_res == Lanes(LAMBDA k : calc_b(a_res[k + 1], s1[k + 1], one_over_n))
        IN  calc_ab_blocks([A |-> yy_storeu_256(st.A, org + row * stride + j, a_res),
                            B |-> yy_storeu_256(st.B, org + row * stride + j, b_res)],
                           C, D, org, w, h, stride, e, bd, r, z0, n + 1)

\* calc_ab that leaves alone every entry of A and B that already holds a value
calc_ab_keep(A, B, C, D, org, w, h, stride, e, bd, r, z0) ==
  LET ab == calc_ab_blocks([A |-> A, B |-> B], C, D, org, w, h, stride, e, bd, r, z0, 0)
  IN  [A |-> [k \in DOMAIN A |-> IF A[k] # 0 THEN A[k] ELSE ab.A[k]],
       B |-> [k \in DOMAIN B |-> IF B[k] # 0 THEN B[k] ELSE ab.B[k]]]

calc_ab(A, B, C, D, org, w, h, stride, e, bd, r, z0) ==
  calc_ab_blocks([A |-> A, B |-> B], C, D, org, w, h, stride, e, bd, r, z0, 0)

\* cross_sum with weight 4 on the corners as well
cross_sum_flat(buf, p, stride) ==
  LET xtl == yy_loadu_256(buf, p - 1 - stride)
      xt == yy_loadu_256(buf, p - stride)
      xtr == yy_loadu_256(buf, p + 1 - stride)
      xl == yy_loadu_256(buf, p - 1)
      x == yy_loadu_256(buf, p)
      xr == yy_loadu_256(buf, p + 1)
      xbl == yy_loadu_256(buf, p - 1 + stride)
      xb == yy_loadu_256(buf, p + stride)
      xbr == yy_loadu_256(buf, p + 1 + stride)
      fours == Lanes(LAMBDA k :
                 add_epi32(xl[k + 1], add_epi32(xt[k + 1],
                   add_epi32(xr[k + 1], add_epi32(xb[k + 1], x[k + 1])))))
      threes == Lanes(LAMBDA k :
                  add_epi32(xtl[k + 1], add_epi32(xtr[k + 1],
                    add_epi32(xbr[k + 1], xbl[k + 1]))))
  IN  Lanes(LAMBDA k : slli_epi32(add_epi32(fours[k + 1], threes[k + 1]), 2))

\* cross_sum
cross_sum(buf, p, stride) ==
  LET xtl == yy_loadu_256(buf, p - 1 - stride)
      xt == yy_loadu_256(buf, p - stride)
      xtr == yy_loadu_256(buf, p + 1 - stride)
      xl == yy_loadu_256(buf, p - 1)
      x == yy_loadu_256(buf, p)
      xr == yy_loadu_256(buf, p + 1)
      xbl == yy_loadu_256(buf, p - 1 + stride)
      xb == yy_loadu_256(buf, p + stride)
      xbr == yy_loadu_256(buf, p + 1 + stride)
      fours == Lanes(LAMBDA k :
                 add_epi32(xl[k + 1], add_epi32(xt[k + 1],
                   add_epi32(xr[k + 1], add_epi32(xb[k + 1], x[k + 1])))))
      threes == Lanes(LAMBDA k :
                  add_epi32(xtl[k + 1], add_epi32(xtr[k + 1],
                    add_epi32(xbr[k + 1], xbl[k + 1]))))
  IN  Lanes(LAMBDA k :
        sub_epi32(slli_epi32(add_epi32(fours[k + 1], threes[k + 1]), 2), threes[k + 1]))

\* The iterations of the two loops of final_filter from the n-th on.
RECURSIVE final_filter_blocks(_, _, _, _, _, _, _, _, _, _, _)
final_filter_blocks(out, out_stride, A, B, org, stride, pl, w, h, hb, n) ==
  LET nb == (w + 3) \div 4
      nbits == 5
      shift == SGRPROJ_SGR_BITS + nbits - SGRPROJ_RST_BITS
  IN  IF n = h * nb THEN out
      ELSE
        LET row == n \div nb
            j == 4 * (n % nb)
            a == cross_sum(A, org + row * stride + j, stride)
            b == cross_sum(B, org + row * stride + j, stride)
            src == IF hb = 1 THEN yy256_load_extend_16_32(pl, row, j)
                             ELSE yy256_load_extend_8_32(pl, row, j)
            v == Lanes(LAMBDA k : add_epi32(madd_epi16(a[k + 1], src[k + 1]), b[k + 1]))
            wv == Lanes(LAMBDA k : srai_epi32(add_epi32(v[k + 1], round_for_shift(shift)), shift))
        IN  final_filter_blocks(yy_storeu_256(out, row * out_stride + j, wv),
                                out_stride, A, B, org, stride, pl, w, h, hb, n + 1)

\* final_filter whose rows are stored last row first
final_filter_upward(out, out_stride, A, B, org, stride, pl, w, h, hb) ==
  LET RECURSIVE rows(_, _)
      rows(o, row) ==
        IF row < 0 THEN o
        ELSE rows(final_filter_blocks(o, out_stride, A, B, org, stride, pl, w, row + 1, hb,
                                      row * ((w + 3) \div 4)), row - 1)
  IN  rows(out, h - 1)

final_filter(out, out_stride, A, B, org, stride, pl, w, h, hb) ==
  final_filter_blocks(out, out_stride, A, B, org, stride, pl, w, h, hb, 0)

\* ---- the geometry av1_selfguided_restoration_avx2 sets up ----
width_ext(w) == w + 2 * SGRPROJ_BORDER_HORZ
height_ext(h) == h + 2 * SGRPROJ_BORDER_VERT

\* buf_stride = ALIGN_POWER_OF_TWO(width_ext + 16, 3)
buf_stride(w) == ALIGN8(width_ext(w) + 16)

\* the part of each of the four arrays the calls touch, counted from its tl pointer
BufElts(w, h) == (height_ext(h) + 1) * buf_stride(w)

\* A = Atl + 1 + buf_stride + buf_diag_border: the entry of row 0, column 0
Origin(w) ==
  1 + buf_stride(w) + SGRPROJ_BORDER_HORZ + buf_stride(w) * SGRPROJ_BORDER_VERT

\* ---- inputs of the restoration model ----
PixelFormats == {<<0, 8>>, <<1, 8>>, <<1, 10>>, <<1, 12>>}   \* <<highbd, bit_depth>>

MaxSample(bd) == (2 ^ bd) - 1

FlatLevels(bd) ==
  {0, 1, 2 ^ (bd - 1), MaxSample(bd)} \cup (IF bd > 8 THEN {393} ELSE {254})

Planes(bd) ==
  {[kind |-> "flat", lo |-> v, hi |-> v] : v \in FlatLevels(bd)}
    \cup {[kind |-> k, lo |-> 0, hi |-> MaxSample(bd)] : k \in {"spot", "checker", "ramp"}}
    \cup {[kind |-> "spot", lo |-> MaxSample(bd), hi |-> 0]}

\* the planes of the whole-filter runs
SgrPlanes(bd) ==
  {[kind |-> "flat", lo |-> v, hi |-> v] : v \in FlatLevels(bd)}
    \cup {[kind |-> k, lo |-> 0, hi |-> MaxSample(bd)] : k \in {"spot", "checker"}}
    \cup {[kind |-> "spot", lo |-> MaxSample(bd), hi |-> 0]}

\* unit sizes for the integral-image runs: the largest has 16 x 17 padded
\* samples, enough for the 12-bit squares to pass 2^32
IIDims == {<<1, 1>>, <<3, 2>>, <<10, 3>>, <<10, 11>>}

IIInit ==
  /\ \E d \in IIDims : width = d[1] /\ height = d[2]
  /\ \E f \in PixelFormats :
       /\ highbd = f[1]
       /\ sgr_bit_depth = f[2]
       /\ dgd \in Planes(f[2])
  /\ xbx0 = 0
  /\ Ctl = <<>> /\ Dtl = <<>> /\ ii_row = 0 /\ Atl = <<>> /\ Btl = <<>>
  /\ sum1 = <<>> /\ sum2 = <<>> /\ box = <<>> /\ eps = -1
  /\ flt1 = <<>> /\ flt2 = <<>> /\ xqd = <<>> /\ dst = <<>> /\ dst_stride = 0
  /\ mix = <<>> /\ spc = "start"
  \* entropy.h and cost.c are not run
  /\ tx_size = 0 /\ a_ctx = <<>> /\ l_ctx = <<>> /\ ctx = -1 /\ bits = -1
  /\ bit_depth = 0 /\ epc = "idle"
  /\ cdf = <<>> /\ inv_map = <<>> /\ costs = <<>> /\ i = 0 /\ prev_cdf = 0
  /\ p15s = <<>> /\ cdf_reads = {} /\ cpc = "idle"
  \* the tiles are not averaged
  /\ ec_ctxs = <<>> /\ num_tiles = 0 /\ fc_cdf = <<>> /\ tpc = "idle"
  \* cross_sum is not called on its own
  /\ xs_buf = <<>> /\ xs_out = <<>> /\ xpc = "idle"

\* av1_selfguided_restoration_avx2 from its entry to the first row of the
\* integral images: buf is cleared and the top rows of C and D are written
SelfGuidedEntry ==
  /\ spc = "start"
  /\ Ctl' = ZeroTopRow(ZeroBuf(BufElts(width, height)), width_ext(width))
  /\ Dtl' = ZeroTopRow(ZeroBuf(BufElts(width, height)), width_ext(width))
  /\ Atl' = ZeroBuf(BufElts(width, height))
  /\ Btl' = ZeroBuf(BufElts(width, height))
  /\ ii_row' = 0
  /\ spc' = "rows"
  /\ UNCHANGED <<dgd, width, height, highbd, sgr_bit_depth, xbx0, sum1, sum2, box, eps,
                 flt1, flt2, xqd, dst, dst_stride, mix>>

\* one row of integral_images / integral_images_highbd on Ctl, Dtl
IntegralImagesRow ==
  /\ spc = "rows"
  /\ LET ii == IF highbd = 1
                 THEN integral_images_highbd(dgd, -SGRPROJ_BORDER_VERT, -SGRPROJ_BORDER_HORZ,
                        width_ext(width), ii_row, Ctl, Dtl, buf_stride(width))
                 ELSE integral_images(dgd, -SGRPROJ_BORDER_VERT, -SGRPROJ_BORDER_HORZ,
                        width_ext(width), ii_row, Ctl, Dtl, buf_stride(width))
     IN  /\ Ctl' = ii.A
         /\ Dtl' = ii.B
  /\ ii_row' = ii_row + 1
  /\ spc' = (IF ii_row + 1 < height_ext(height) THEN "rows" ELSE "ii")
  /\ UNCHANGED <<dgd, width, height, highbd, sgr_bit_depth, xbx0, Atl, Btl, sum1, sum2, box,
                 eps, flt1, flt2, xqd, dst, dst_stride, mix>>

\* the columns j the loops of calc_ab visit
CalcAbColumns(w) == {j \in -1 .. w : (j + 1) % 8 = 0}

\* the radii the assertion r + 1 <= AOMMIN(SGRPROJ_BORDER_VERT, SGRPROJ_BORDER_HORZ) admits
Radii == 0 .. (AOMMIN(SGRPROJ_BORDER_VERT, SGRPROJ_BORDER_HORZ) - 1)

\* the two boxsum_from_ii calls of one iteration of calc_ab
BoxSums ==
  /\ spc = "ii"
  /\ \E bi \in -1 .. height : \E bj \in CalcAbColumns(width) : \E r \in Radii :
       /\ box' = <<bi, bj, r>>
       /\ sum1' = boxsum_from_ii(Dtl, Origin(width) + bi * buf_stride(width) + bj,
                                 buf_stride(width), r)
       /\ sum2' = boxsum_from_ii(Ctl, Origin(width) + bi * buf_stride(width) + bj,
                                 buf_stride(width), r)
  /\ spc' = "box"
  /\ UNCHANGED <<dgd, width, height, highbd, sgr_bit_depth, xbx0, Ctl, Dtl, ii_row, Atl, Btl, eps,
                 flt1, flt2, xqd, dst, dst_stride, mix>>

IINext ==
  \/ SelfGuidedEntry /\ UNCHANGED <<entropyVars, costVars, tileVars, crossVars>>
  \/ IntegralImagesRow /\ UNCHANGED <<entropyVars, costVars, tileVars, crossVars>>
  \/ BoxSums /\ UNCHANGED <<entropyVars, costVars, tileVars, crossVars>>

\* ---- apply_selfguided_restoration_avx2 ----
\* registers of sixteen 16-bit lanes
Lanes16(F(_)) ==
  <<F(0), F(1), F(2), F(3), F(4), F(5), F(6), F(7),
    F(8), F(9), F(10), F(11), F(12), F(13), F(14), F(15)>>

SatU16(x) == IF x < 0 THEN 0 ELSE IF x > 65535 THEN 65535 ELSE x
SatS16(x) == IF x < -32768 THEN -32768 ELSE IF x > 32767 THEN 32767 ELSE x
SatU8(x) == IF x < 0 THEN 0 ELSE IF x > 255 THEN 255 ELSE x

\* _mm256_packus_epi32(a, b): unsigned saturation, interleaved by 128-bit half
packus_epi32(a, b) ==
  Lanes16(LAMBDA k :
    LET half == k \div 8
        q == k % 8
    IN  IF q < 4 THEN SatU16(a[4 * half + q + 1]) ELSE SatU16(b[4 * half + (q - 4) + 1]))

\* _mm256_packs_epi32(a, b): signed saturation, same order
packs_epi32(a, b) ==
  Lanes16(LAMBDA k :
    LET half == k \div 8
        q == k % 8
    IN  IF q < 4 THEN SatS16(a[4 * half + q + 1]) ELSE SatS16(b[4 * half + (q - 4) + 1]))

\* _mm256_permute4x64_epi64(t, 0xd8) on sixteen 16-bit lanes: quadwords 0, 2, 1, 3
permute4x64_d8(t) ==
  Lanes16(LAMBDA k :
    LET q == k \div 4
        src == IF q = 1 THEN 2 ELSE IF q = 2 THEN 1 ELSE q
    IN  t[4 * src + (k % 4) + 1])

\* _mm256_min_epi16 against a constant, one lane: a signed comparison of the
\* two 16-bit patterns
min_epi16(x, y) == IF S16(x) < S16(y) THEN x ELSE y

\* the high-bit-depth store without the minimum
PackHighbd_nomin(w_0, w_1, bd) == permute4x64_d8(packus_epi32(w_0, w_1))

\* the high-bit-depth store: pack, permute, clamp
PackHighbd(w_0, w_1, bd) ==
  LET tmp == packus_epi32(w_0, w_1)
      tmp2 == permute4x64_d8(tmp)
  IN  Lanes16(LAMBDA k : min_epi16(tmp2[k + 1], (2 ^ bd) - 1))

\* the 8-bit store: _mm256_packs_epi32, permute, _mm256_packus_epi16(tmp2, tmp2),
\* permute, low 128 bits.  After the second pack the 32 bytes are
\* tmp2[0..7], tmp2[0..7], tmp2[8..15], tmp2[8..15]; the permute brings
\* quadwords 0 and 2 into the low half.
PackLowbd(w_0, w_1) ==
  LET tmp == packs_epi32(w_0, w_1)
      tmp2 == permute4x64_d8(tmp)
  IN  Lanes16(LAMBDA k : SatU8(tmp2[k + 1]))

\* a cell of tmpbuf no store has reached (final_filter stores lie in -2^22 .. 2^22)
FLT_UNSET == -2147483647

\* a read of tmpbuf: what was stored there, or whatever the memory held
ReadFlt(flt, k, junk) == IF flt[k] = FLT_UNSET THEN junk ELSE flt[k]

\* a destination sample no store has reached
DST_UNSET == -1

\* a store that also reaches the sample after the sixteenth
Store16_long(buf, m, v) ==
  [buf EXCEPT ![m] = v[1], ![m + 1] = v[2], ![m + 2] = v[3], ![m + 3] = v[4],
              ![m + 4] = v[5], ![m + 5] = v[6], ![m + 6] = v[7], ![m + 7] = v[8],
              ![m + 8] = v[9], ![m + 9] = v[10], ![m + 10] = v[11], ![m + 11] = v[12],
              ![m + 12] = v[13], ![m + 13] = v[14], ![m + 14] = v[15], ![m + 15] = v[16],
              ![m + 16] = v[16]]

\* yy_store_256 of sixteen 16-bit samples / xx_store_128 of sixteen bytes
Store16(buf, m, v) ==
  [buf EXCEPT ![m] = v[1], ![m + 1] = v[2], ![m + 2] = v[3], ![m + 3] = v[4],
              ![m + 4] = v[5], ![m + 5] = v[6], ![m + 6] = v[7], ![m + 7] = v[8],
              ![m + 8] = v[9], ![m + 9] = v[10], ![m + 10] = v[11], ![m + 11] = v[12],
              ![m + 12] = v[13], ![m + 13] = v[14], ![m + 14] = v[15], ![m + 15] = v[16]]

\* v and w of one lane of the mixing step
mix_w(xq, f1, f2, u) ==
  LET v == add_epi32(add_epi32(mullo_epi32(xq[1], f1), mullo_epi32(xq[2], f2)),
                     slli_epi32(u, SGRPROJ_PRJ_BITS))
  IN  srai_epi32(add_epi32(v, round_for_shift(SGRPROJ_PRJ_BITS + SGRPROJ_RST_BITS)),
                 SGRPROJ_PRJ_BITS + SGRPROJ_RST_BITS)

\* The batches of 16 pixels of apply_selfguided_restoration_avx2 from the
\* n-th on; st carries the destination and, next to it, the w of each store.
RECURSIVE apply_batches(_, _, _, _, _, _, _, _, _, _, _, _)
apply_batches(st, pl, w, h, xq, f1, f2, ds, bd, hb, junk, n) ==
  LET nb == (w + 15) \div 16
  IN  IF n = h * nb THEN st
      ELSE
        LET row == n \div nb
            j == 16 * (n % nb)
            k0 == row * w + j
            m == row * ds + j
            ep_0 == IF hb = 1 THEN yy256_load_extend_16_32(pl, row, j)
                              ELSE yy256_load_extend_8_32(pl, row, j)
            ep_1 == IF hb = 1 THEN yy256_load_extend_16_32(pl, row, j + 8)
                              ELSE yy256_load_extend_8_32(pl, row, j + 8)
            u_0 == Lanes(LAMBDA k : slli_epi32(ep_0[k + 1], SGRPROJ_RST_BITS))
            u_1 == Lanes(LAMBDA k : slli_epi32(ep_1[k + 1], SGRPROJ_RST_BITS))
            f1_0 == Lanes(LAMBDA k : sub_epi32(ReadFlt(f1, k0 + k, junk), u_0[k + 1]))
            f1_1 == Lanes(LAMBDA k : sub_epi32(ReadFlt(f1, k0 + 8 + k, junk), u_1[k + 1]))
            f2_0 == Lanes(LAMBDA k : sub_epi32(ReadFlt(f2, k0 + k, junk), u_0[k + 1]))
            f2_1 == Lanes(LAMBDA k : sub_epi32(ReadFlt(f2, k0 + 8 + k, junk), u_1[k + 1]))
            w_0 == Lanes(LAMBDA k : mix_w(xq, f1_0[k + 1], f2_0[k + 1], u_0[k + 1]))
            w_1 == Lanes(LAMBDA k : mix_w(xq, f1_1[k + 1], f2_1[k + 1], u_1[k + 1]))
            res == IF hb = 1 THEN PackHighbd(w_0, w_1, bd) ELSE PackLowbd(w_0, w_1)
        IN  apply_batches([dst |-> Store16(st.dst, m, res),
                           mix |-> Store16(st.mix, m, w_0 \o w_1)],
                          pl, w, h, xq, f1, f2, ds, bd, hb, junk, n + 1)

\* ---- the calls, step by step ----
\* unit sizes of the whole-filter runs
MaxUnitWidth == 2
UnitHeights == {1, 2}

\* the small units, a unit whose rows take two overlapping stores of
\* final_filter, and a unit one batch of apply wide
UnitDims ==
  {<<w, h>> : w \in 1 .. MaxUnitWidth, h \in UnitHeights} \cup {<<5, 2>>, <<16, 1>>}

\* the parameter sets and the signalled coefficient pairs tried
EpsChoices == {0, 11, 15}
XqdChoices ==
  {<<SGRPROJ_PRJ_MIN0, SGRPROJ_PRJ_MIN1>>, <<SGRPROJ_PRJ_MAX0, SGRPROJ_PRJ_MAX1>>, <<0, 0>>}

\* what an unwritten cell of tmpbuf may hold
JunkVals == {0, 1048576}

\* the cells of flt1 / flt2 the stores and loads reach
FltElts(w, h) == w * h + 16

\* the destination strides tried, and the samples the stores reach
DstStrides(w) == {w, w + 16}
DstElts(h, ds) == h * ds + 16

SgrInit ==
  /\ \E d \in UnitDims : width = d[1] /\ height = d[2]
  /\ \E f \in PixelFormats :
       /\ highbd = f[1]
       /\ sgr_bit_depth = f[2]
       /\ dgd \in SgrPlanes(f[2])
  /\ xbx0 \in {0, 1}
  /\ Ctl = <<>> /\ Dtl = <<>> /\ ii_row = 0 /\ Atl = <<>> /\ Btl = <<>>
  /\ sum1 = <<>> /\ sum2 = <<>> /\ box = <<>> /\ eps = -1
  /\ flt1 = [k \in 0 .. (FltElts(width, height) - 1) |-> FLT_UNSET]
  /\ flt2 = [k \in 0 .. (FltElts(width, height) - 1) |-> FLT_UNSET]
  /\ xqd = <<>> /\ dst = <<>> /\ dst_stride = 0
  /\ mix = <<>> /\ spc = "start"
  \* entropy.h and cost.c are not run
  /\ tx_size = 0 /\ a_ctx = <<>> /\ l_ctx = <<>> /\ ctx = -1 /\ bits = -1
  /\ bit_depth = 0 /\ epc = "idle"
  /\ cdf = <<>> /\ inv_map = <<>> /\ costs = <<>> /\ i = 0 /\ prev_cdf = 0
  /\ p15s = <<>> /\ cdf_reads = {} /\ cpc = "idle"
  \* the tiles are not averaged
  /\ ec_ctxs = <<>> /\ num_tiles = 0 /\ fc_cdf = <<>> /\ tpc = "idle"
  \* cross_sum is not called on its own
  /\ xs_buf = <<>> /\ xs_out = <<>> /\ xpc = "idle"

\* the radius and strength of pass 0 / pass 1 of the loop "Write to flt1 and flt2"
PassR(e, pass) == IF pass = 1 THEN sgr_params[e + 1].r2 ELSE sgr_params[e + 1].r1
PassE(e, pass) == IF pass = 1 THEN sgr_params[e + 1].e2 ELSE sgr_params[e + 1].e1

\* calc_ab of pass 0 (the caller's eps is seen here for the first time) or pass 1
CalcAb(pass) ==
  /\ spc = (IF pass = 0 THEN "ii" ELSE "ff1")
  /\ IF pass = 0 THEN eps' \in EpsChoices ELSE eps' = eps
  /\ LET ab == calc_ab(Atl, Btl, Ctl, Dtl, Origin(width), width, height, buf_stride(width),
                       PassE(eps', pass), sgr_bit_depth, PassR(eps', pass), xbx0)
     IN  Atl' = ab.A /\ Btl' = ab.B
  /\ spc' = (IF pass = 0 THEN "ab1" ELSE "ab2")
  /\ UNCHANGED <<dgd, width, height, highbd, sgr_bit_depth, xbx0, Ctl, Dtl, ii_row, sum1, sum2, box,
                 flt1, flt2, xqd, dst, dst_stride, mix>>

\* final_filter of pass 0 (into flt1) or pass 1 (into flt2); flt_stride = width
FinalFilter(pass) ==
  /\ spc = (IF pass = 0 THEN "ab1" ELSE "ab2")
  /\ LET flt == final_filter(IF pass = 0 THEN flt1 ELSE flt2, width, Atl, Btl,
                             Origin(width), buf_stride(width), dgd, width, height, highbd)
     IN  IF pass = 0 THEN flt1' = flt /\ flt2' = flt2
                     ELSE flt2' = flt /\ flt1' = flt1
  /\ spc' = (IF pass = 0 THEN "ff1" ELSE "ff2")
  /\ UNCHANGED <<dgd, width, height, highbd, sgr_bit_depth, xbx0, Ctl, Dtl, ii_row, Atl, Btl,
                 sum1, sum2, box, eps, xqd, dst, dst_stride, mix>>

\* apply_selfguided_restoration_avx2 after av1_selfguided_restoration_avx2 returned
Apply ==
  /\ spc = "ff2"
  /\ \E q \in XqdChoices : \E ds \in DstStrides(width) : \E junk \in JunkVals :
       LET unset == [k \in 0 .. (DstElts(height, ds) - 1) |-> DST_UNSET]
           out == apply_batches([dst |-> unset, mix |-> unset], dgd, width, height,
                                decode_xq(q), flt1, flt2, ds, sgr_bit_depth, highbd, junk, 0)
       IN  /\ xqd' = q
           /\ dst_stride' = ds
           /\ dst' = out.dst
           /\ mix' = out.mix
  /\ spc' = "applied"
  /\ UNCHANGED <<dgd, width, height, highbd, sgr_bit_depth, xbx0, Ctl, Dtl, ii_row, Atl, Btl,
                 sum1, sum2, box, eps, flt1, flt2>>

SgrNext ==
  \/ SelfGuidedEntry /\ UNCHANGED <<entropyVars, costVars, tileVars, crossVars>>
  \/ IntegralImagesRow /\ UNCHANGED <<entropyVars, costVars, tileVars, crossVars>>
  \/ CalcAb(0) /\ UNCHANGED <<entropyVars, costVars, tileVars, crossVars>>
  \/ FinalFilter(0) /\ UNCHANGED <<entropyVars, costVars, tileVars, crossVars>>
  \/ CalcAb(1) /\ UNCHANGED <<entropyVars, costVars, tileVars, crossVars>>
  \/ FinalFilter(1) /\ UNCHANGED <<entropyVars, costVars, tileVars, crossVars>>
  \/ Apply /\ UNCHANGED <<entropyVars, costVars, tileVars, crossVars>>

(***************************************************************************)
(* entropy.h: av1_average_tile_coef_cdfs and its mv / intra / inter /      *)
(* loopfilter variants.  entropy.h carries their prototypes only; the      *)
(* bodies are in files outside this excerpt.  The combination is modelled  *)
(* as the description of the codec gives it: for each CDF entry, the       *)
(* average over the tiles weighted by each tile's symbol count,            *)
(* accumulated over ec_ctxs[] in array order.  A context no tile coded a   *)
(* symbol for gets the plain average over num_tiles.                       *)
(***************************************************************************)
MaxTiles == 3

\* adapted CDFs a tile can end with (three symbols: two cumulative values,
\* non-decreasing)
TileCdfs == {<<10923, 21845>>, <<4, 32764>>, <<16384, 16388>>}

\* number of symbols the tile coded in the context
TileCounts == {0, 1, 32}

\* a running mean that halves what it has before adding the next tile
RECURSIVE accumulate_tiles_running(_, _, _)
accumulate_tiles_running(tiles, j, acc) ==
  IF j > Len(tiles) THEN acc
  ELSE accumulate_tiles_running(tiles, j + 1,
         [wsum  |-> [k \in DOMAIN acc.wsum |->
                       (acc.wsum[k] \div 2) + tiles[j].count * tiles[j].cdf[k]],
          sum   |-> [k \in DOMAIN acc.wsum |-> (acc.sum[k] \div 2) + tiles[j].cdf[k]],
          count |-> acc.count + tiles[j].count])

\* for (j = 0; j < num_tiles; ++j): add tile j's weighted CDF and its count
RECURSIVE accumulate_tiles(_, _, _)
accumulate_tiles(tiles, j, acc) ==
  IF j > Len(tiles) THEN acc
  ELSE accumulate_tiles(tiles, j + 1,
         [wsum  |-> [k \in DOMAIN acc.wsum |->
                       acc.wsum[k] + tiles[j].count * tiles[j].cdf[k]],
          sum   |-> [k \in DOMAIN acc.wsum |-> acc.sum[k] + tiles[j].cdf[k]],
          count |-> acc.count + tiles[j].count])

av1_average_tile_coef_cdfs(tiles, n) ==
  LET zero == [k \in DOMAIN tiles[1].cdf |-> 0]
      acc == accumulate_tiles(tiles, 1, [wsum |-> zero, sum |-> zero, count |-> 0])
  IN  [k \in DOMAIN acc.wsum |->
         IF acc.count > 0 THEN acc.wsum[k] \div acc.count ELSE acc.sum[k] \div n]

TileInit ==
  /\ num_tiles \in 1 .. MaxTiles
  /\ ec_ctxs \in [1 .. num_tiles -> [cdf : TileCdfs, count : TileCounts]]
  /\ fc_cdf = <<>>
  /\ tpc = "tiles"
  \* entropy.h's inline functions are not run
  /\ tx_size = 0 /\ a_ctx = <<>> /\ l_ctx = <<>> /\ ctx = -1 /\ bits = -1
  /\ bit_depth = 0 /\ epc = "idle"
  \* cost.c is not run
  /\ cdf = <<>> /\ inv_map = <<>> /\ costs = <<>> /\ i = 0 /\ prev_cdf = 0
  /\ p15s = <<>> /\ cdf_reads = {} /\ cpc = "idle"
  \* the restoration filter is not run
  /\ dgd = <<>> /\ width = 0 /\ height = 0 /\ highbd = 0 /\ sgr_bit_depth = 0
  /\ xbx0 = 0
  /\ Ctl = <<>> /\ Dtl = <<>> /\ ii_row = 0 /\ Atl = <<>> /\ Btl = <<>>
  /\ sum1 = <<>> /\ sum2 = <<>> /\ box = <<>> /\ eps = -1
  /\ flt1 = <<>> /\ flt2 = <<>> /\ xqd = <<>> /\ dst = <<>> /\ dst_stride = 0
  /\ mix = <<>> /\ spc = "idle"
  \* cross_sum is not called on its own
  /\ xs_buf = <<>> /\ xs_out = <<>> /\ xpc = "idle"

AverageTileCdfs ==
  /\ tpc = "tiles"
  /\ fc_cdf' = av1_average_tile_coef_cdfs(ec_ctxs, num_tiles)
  /\ tpc' = "merged"
  /\ UNCHANGED <<ec_ctxs, num_tiles>>

TileNext == AverageTileCdfs /\ UNCHANGED <<entropyVars, costVars, sgrVars, crossVars>>

(***************************************************************************)
(* cross_sum called on its own, on a buffer of arbitrary 32-bit entries.   *)
(***************************************************************************)
\* entries tried: values the a and b maps hold, and the ends of the 32-bit range
CrossVals == <<0, 1, -1, 256, 1048575, 2147483647, -2147483647 - 1>>

\* a buffer of three rows of ten entries whose entry at (row, col) is
\* CrossVals[(a * row + b * col + d) mod 7]
CrossBuf(a, b, d) ==
  [k \in 0 .. 29 |-> CrossVals[(((a * (k \div 10)) + (b * (k % 10)) + d) % Len(CrossVals)) + 1]]

CrossInit ==
  /\ \E a \in 0 .. 6 : \E b \in 0 .. 6 : \E d \in 0 .. 6 : xs_buf = CrossBuf(a, b, d)
  /\ xs_out = <<>>
  /\ xpc = "call"
  \* entropy.h's inline functions are not run
  /\ tx_size = 0 /\ a_ctx = <<>> /\ l_ctx = <<>> /\ ctx = -1 /\ bits = -1
  /\ bit_depth = 0 /\ epc = "idle"
  \* cost.c is not run
  /\ cdf = <<>> /\ inv_map = <<>> /\ costs = <<>> /\ i = 0 /\ prev_cdf = 0
  /\ p15s = <<>> /\ cdf_reads = {} /\ cpc = "idle"
  \* the restoration filter is not run
  /\ dgd = <<>> /\ width = 0 /\ height = 0 /\ highbd = 0 /\ sgr_bit_depth = 0
  /\ xbx0 = 0
  /\ Ctl = <<>> /\ Dtl = <<>> /\ ii_row = 0 /\ Atl = <<>> /\ Btl = <<>>
  /\ sum1 = <<>> /\ sum2 = <<>> /\ box = <<>> /\ eps = -1
  /\ flt1 = <<>> /\ flt2 = <<>> /\ xqd = <<>> /\ dst = <<>> /\ dst_stride = 0
  /\ mix = <<>> /\ spc = "idle"
  \* the tiles are not averaged
  /\ ec_ctxs = <<>> /\ num_tiles = 0 /\ fc_cdf = <<>> /\ tpc = "idle"

\* cross_sum(buf, stride) with buf at row 1, column 1 and a stride of ten
CrossSumCall ==
  /\ xpc = "call"
  /\ xs_out' = cross_sum(xs_buf, 11, 10)
  /\ xpc' = "done"
  /\ UNCHANGED xs_buf

CrossNext == CrossSumCall /\ UNCHANGED <<entropyVars, costVars, sgrVars, tileVars>>

(***************************************************************************)
(* av1_cost_tokens_from_cdf called on uniform CDFs.                        *)
(***************************************************************************)
MaxUniformSyms == 16     \* the largest alphabet of the codec's CDFs

\* the CDF of n equally likely symbols: cumulative values (j + 1) * (CDF_PROB_TOP / n),
\* the sentinel at index n - 1, then entries the walk must not look at
UniformCdf(n) ==
  [j \in 0 .. (n - 1 + CdfPad) |->
     IF j < n - 1 THEN AOM_ICDF((j + 1) * (CDF_PROB_TOP \div n))
     ELSE IF j = n - 1 THEN AOM_ICDF(CDF_PROB_TOP)
     ELSE 7]

UniformInit ==
  /\ \E n \in 2 .. MaxUniformSyms :
       /\ cdf = UniformCdf(n)
       /\ inv_map \in {NULL, Reverse(n - 1)}
       /\ costs = [j \in 0 .. (n - 1 + CostPad) |-> COST_UNSET]
  /\ i = 0
  /\ prev_cdf = 0
  /\ p15s = <<>>
  /\ cdf_reads = {}
  /\ cpc = "loop"
  \* entropy.h is not run
  /\ tx_size = 0 /\ a_ctx = <<>> /\ l_ctx = <<>> /\ ctx = -1 /\ bits = -1
  /\ bit_depth = 0 /\ epc = "idle"
  \* the tiles are not averaged
  /\ ec_ctxs = <<>> /\ num_tiles = 0 /\ fc_cdf = <<>> /\ tpc = "idle"
  \* the restoration filter is not run
  /\ dgd = <<>> /\ width = 0 /\ height = 0 /\ highbd = 0 /\ sgr_bit_depth = 0
  /\ xbx0 = 0
  /\ Ctl = <<>> /\ Dtl = <<>> /\ ii_row = 0 /\ Atl = <<>> /\ Btl = <<>>
  /\ sum1 = <<>> /\ sum2 = <<>> /\ box = <<>> /\ eps = -1
  /\ flt1 = <<>> /\ flt2 = <<>> /\ xqd = <<>> /\ dst = <<>> /\ dst_stride = 0
  /\ mix = <<>> /\ spc = "idle"
  \* cross_sum is not called on its own
  /\ xs_buf = <<>> /\ xs_out = <<>> /\ xpc = "idle"

SpecEntropy == EntropyInit /\ [][EntropyNext]_vars

SpecCost == CostInit /\ [][CostNext]_vars

SpecII == IIInit /\ [][IINext]_vars

SpecSgr == SgrInit /\ [][SgrNext]_vars

SpecTile == TileInit /\ [][TileNext]_vars

SpecCross == CrossInit /\ [][CrossNext]_vars

SpecUniform == UniformInit /\ [][CostNext]_vars

(***************************************************************************)
(* Properties of the entropy.h model (checked under SpecEntropy).          *)
(***************************************************************************)
\* some byte among the first n bytes of arr is non-zero, tested one by one
AnyNonZero(arr, n) == \E k \in 0 .. (n - 1) : arr[k] # 0

AllZero(arr) == \A k \in DOMAIN arr : arr[k] = 0

AboveNonZero == AnyNonZero(a_ctx, tx_size_wide[tx_size + 1] \div 4)
LeftNonZero == AnyNonZero(l_ctx, tx_size_high[tx_size + 1] \div 4)

\* C6: for every transform size get_entropy_context returns
\* (above-nonzero ? 1 : 0) + (left-nonzero ? 1 : 0), a value in {0,1,2}, where
\* above-nonzero / left-nonzero test the first width/4 / height/4 bytes one by
\* one; bytes outside those windows do not influence the result.
C6_ContextIsWindowCount ==
  epc # "call" =>
    /\ ctx \in {0, 1, 2}
    /\ ctx = (IF AboveNonZero THEN 1 ELSE 0) + (IF LeftNonZero THEN 1 ELSE 0)

\* a 16x32 block: a non-zero byte just outside the 4-byte above window and one
\* in the last byte of the 8-byte left window
C6_Witness ==
  /\ epc = "ctx"
  /\ tx_size = TX_16X32
  /\ a_ctx[4] # 0
  /\ l_ctx[7] # 0
  /\ ctx = 1

\* C7 as stated: two fully-zero arrays give 0, and two identical non-zero
\* arrays give 2, for every transform size.
C7_Original ==
  epc # "call" =>
    /\ (AllZero(a_ctx) /\ AllZero(l_ctx) => ctx = 0)
    /\ (a_ctx = l_ctx /\ ~AllZero(a_ctx) => ctx = 2)

\* C7 amended: two fully-zero arrays give 0; two identical arrays give 2 when
\* they hold a non-zero byte inside both windows that the transform size reads
\* (the first width/4 bytes of above and the first height/4 bytes of left).
C7_IdenticalInsideWindows ==
  epc # "call" =>
    /\ (AllZero(a_ctx) /\ AllZero(l_ctx) => ctx = 0)
    /\ (a_ctx = l_ctx /\ AboveNonZero /\ LeftNonZero => ctx = 2)

C7_Witness ==
  /\ epc = "ctx"
  /\ tx_size = TX_4X16
  /\ a_ctx = l_ctx
  /\ a_ctx[0] # 0
  /\ ctx = 2

LargerDim(tx) == AOMMAX(tx_size_wide[tx + 1], tx_size_high[tx + 1])

\* C10: av1_get_cat6_extrabits_size never exceeds CAT6_BIT_SIZE (18) and does
\* not decrease when the bit depth increases (transform size fixed) nor when
\* the larger dimension of the transform size increases (bit depth fixed).
C10_Cat6CappedMonotone ==
  epc = "done" =>
    /\ bits <= CAT6_BIT_SIZE
    /\ \A bd \in BitDepths :
         bd >= bit_depth => av1_get_cat6_extrabits_size(tx_size, bd) >= bits
    /\ \A tx \in TxSizes :
         LargerDim(tx) >= LargerDim(tx_size) =>
           av1_get_cat6_extrabits_size(tx, bit_depth) >= bits

C10_Witness ==
  /\ epc = "done"
  /\ tx_size = TX_64X16
  /\ bit_depth = 12
  /\ bits = CAT6_BIT_SIZE

(***************************************************************************)
(* Properties of the cost.c model (checked under SpecCost).                *)
(***************************************************************************)
\* the first index of cdf[] that holds the sentinel
SentinelIndex ==
  CHOOSE k \in DOMAIN cdf :
    /\ cdf[k] = AOM_ICDF(CDF_PROB_TOP)
    /\ \A j \in 0 .. (k - 1) : cdf[j] # AOM_ICDF(CDF_PROB_TOP)

\* ICDF(cdf[j]) - ICDF(cdf[j-1]), the first symbol's predecessor taken as zero
Mass(j) == AOM_ICDF(cdf[j]) - (IF j = 0 THEN 0 ELSE AOM_ICDF(cdf[j - 1]))

FlooredMass(j) == IF Mass(j) < EC_MIN_PROB THEN EC_MIN_PROB ELSE Mass(j)

\* the entry of costs[] that belongs to symbol j
SymbolEntry(j) == IF inv_map # NULL THEN inv_map[j] ELSE j

SymbolCost(j) == costs[SymbolEntry(j)]

\* C3: every cost written is non-negative and finite (at most the cost of the
\* smallest probability 2^-15), and a symbol with a larger probability mass
\* never gets a larger cost than a symbol with a smaller mass.
C3_CostsBoundedMonotone ==
  cpc = "done" =>
    /\ \A j \in 0 .. SentinelIndex :
         SymbolCost(j) >= 0 /\ SymbolCost(j) <= av1_cost_literal(CDF_PROB_BITS)
    /\ \A j1, j2 \in 0 .. SentinelIndex :
         Mass(j1) > Mass(j2) => SymbolCost(j1) <= SymbolCost(j2)

\* a symbol below the floor next to a symbol holding more than half the mass
C3_Witness ==
  /\ cpc = "done"
  /\ \E j1, j2 \in 0 .. SentinelIndex :
       /\ Mass(j1) < EC_MIN_PROB
       /\ Mass(j2) > 16384
       /\ SymbolCost(j1) > SymbolCost(j2)

\* C4: the mass converted to a cost for symbol j is
\* max(EC_MIN_PROB, ICDF(cdf[j]) - ICDF(cdf[j-1])) with the first predecessor
\* zero, for every j up to and including the sentinel index; nothing below
\* EC_MIN_PROB is passed to the conversion.
C4_MassIsFlooredDifference ==
  /\ \A n \in 1 .. Len(p15s) :
       /\ p15s[n] = FlooredMass(n - 1)
       /\ p15s[n] >= EC_MIN_PROB
  /\ cpc = "done" => Len(p15s) = SentinelIndex + 1

\* a zero-mass symbol after the first one has been floored
C4_Witness ==
  /\ cpc = "done"
  /\ Len(p15s) >= 3
  /\ \E n \in 2 .. Len(p15s) : Mass(n - 1) = 0 /\ p15s[n] = EC_MIN_PROB

\* C5: the walk stops at the first index k holding the sentinel; it writes
\* exactly the k+1 entries of symbols 0..k (entry inv_map[j] for symbol j when
\* a map is given, entry j otherwise), reads no cdf entry past k and leaves
\* every other entry of costs[] unchanged.
C5_StopsAtFirstSentinel ==
  /\ cdf_reads \subseteq 0 .. SentinelIndex
  /\ \A e \in DOMAIN costs :
       e \notin {SymbolEntry(j) : j \in 0 .. SentinelIndex} => costs[e] = COST_UNSET
  /\ cpc = "done" =>
       /\ i = SentinelIndex
       /\ cdf_reads = 0 .. SentinelIndex
       /\ \A j \in 0 .. SentinelIndex :
            SymbolCost(j) = av1_cost_symbol(FlooredMass(j))
       /\ Cardinality({e \in DOMAIN costs : costs[e] # COST_UNSET}) = SentinelIndex + 1

\* three symbols scattered through a rotation, with a second sentinel value
\* right after the first one
C5_Witness ==
  /\ cpc = "done"
  /\ SentinelIndex = 2
  /\ inv_map = Rotate(2)
  /\ cdf[3] = AOM_ICDF(CDF_PROB_TOP)
  /\ costs[3] = COST_UNSET
  /\ costs[0] # costs[1]

(***************************************************************************)
(* Properties of the integral images and the box sums (checked under       *)
(* SpecII).                                                                *)
(***************************************************************************)

\* the padded plane: row y, column x counted from its top-left sample
Padded(y, x) == Sample(dgd, y - SGRPROJ_BORDER_VERT, x - SGRPROJ_BORDER_HORZ)

\* the sum of the samples of columns x0 .. x1-1 of row y of the padded plane
RECURSIVE RowSum(_, _, _)
RowSum(y, x0, x1) ==
  IF x0 >= x1 THEN 0 ELSE Padded(y, x0) + RowSum(y, x0 + 1, x1)

\* the sum of the samples of rows y0 .. y1-1, columns x0 .. x1-1
RECURSIVE RectSum(_, _, _, _)
RectSum(y0, y1, x0, x1) ==
  IF y0 >= y1 THEN 0 ELSE RowSum(y0, x0, x1) + RectSum(y0 + 1, y1, x0, x1)

\* Sums of squares are kept as two limbs <<hi, lo>> of value hi * 2^16 + lo,
\* since the sum itself can pass 2^31.
LimbAdd(a, b) == <<a[1] + b[1] + ((a[2] + b[2]) \div W16), (a[2] + b[2]) % W16>>

RECURSIVE RowSumSq(_, _, _)
RowSumSq(y, x0, x1) ==
  IF x0 >= x1 THEN <<0, 0>>
  ELSE LET s == Padded(y, x0)
       IN  LimbAdd(<<(s * s) \div W16, (s * s) % W16>>, RowSumSq(y, x0 + 1, x1))

RECURSIVE RectSumSq(_, _, _, _)
RectSumSq(y0, y1, x0, x1) ==
  IF y0 >= y1 THEN <<0, 0>>
  ELSE LimbAdd(RowSumSq(y0, x0, x1), RectSumSq(y0 + 1, y1, x0, x1))

\* the entry of an integral image for row y, column x
Entry(ii, y, x) == ii[y * buf_stride(width) + x]

\* the integral images have just been built
IIBuilt == spc = "ii"

\* C2 as stated: every entry of both integral images equals the sum over the
\* rectangle strictly above and to the left of it, row 0 and column 0 being zero.
C2_Original ==
  IIBuilt =>
    \A y \in 0 .. height_ext(height) : \A x \in 0 .. width_ext(width) :
      /\ Entry(Dtl, y, x) = RectSum(0, y, 0, x)
      /\ LET sq == RectSumSq(0, y, 0, x)
         IN  sq[1] < H16 /\ Entry(Ctl, y, x) = sq[1] * W16 + sq[2]

\* C2, amended: every entry of the sample image equals the sum over the
\* rectangle strictly above and to the left of it, every entry of the
\* squares image equals that sum of squares modulo 2^32 (and the sum itself
\* whenever it is below 2^31); row 0 and column 0 are zero.
C2_IntegralImagesModulo ==
  IIBuilt =>
    \A y \in 0 .. height_ext(height) : \A x \in 0 .. width_ext(width) :
      /\ Entry(Dtl, y, x) = RectSum(0, y, 0, x)
      /\ LET sq == RectSumSq(0, y, 0, x)
         IN  /\ Entry(Ctl, y, x) = Word32(sq[1] % W16, sq[2])
             /\ sq[1] < H16 => Entry(Ctl, y, x) = sq[1] * W16 + sq[2]
      /\ (y = 0 \/ x = 0) => Entry(Dtl, y, x) = 0 /\ Entry(Ctl, y, x) = 0

\* a squares image whose last entry has wrapped, next to entries that have not
C2_Witness ==
  /\ spc = "ii"
  /\ RectSumSq(0, height_ext(height), 0, width_ext(width))[1] >= W16
  /\ Entry(Ctl, height_ext(height), width_ext(width))
       = Word32(RectSumSq(0, height_ext(height), 0, width_ext(width))[1] % W16,
                RectSumSq(0, height_ext(height), 0, width_ext(width))[2])
  /\ Entry(Ctl, 1, 1) = Padded(0, 0) * Padded(0, 0)
  /\ Entry(Ctl, 1, 1) > 0

\* the lanes of a box-sum register whose box lies inside the padded plane
InBoundsLanes ==
  {k \in 0 .. 7 :
     /\ box[2] + k - box[3] >= -SGRPROJ_BORDER_HORZ
     /\ box[2] + k + box[3] <= width + SGRPROJ_BORDER_HORZ - 1
     /\ box[1] - box[3] >= -SGRPROJ_BORDER_VERT
     /\ box[1] + box[3] <= height + SGRPROJ_BORDER_VERT - 1}

\* the brute-force sums over the (2r+1) x (2r+1) box centred on row bi, column bj
BoxRectSum(bi, bj, r) ==
  RectSum(bi - r + SGRPROJ_BORDER_VERT, bi + r + 1 + SGRPROJ_BORDER_VERT,
          bj - r + SGRPROJ_BORDER_HORZ, bj + r + 1 + SGRPROJ_BORDER_HORZ)

BoxRectSumSq(bi, bj, r) ==
  RectSumSq(bi - r + SGRPROJ_BORDER_VERT, bi + r + 1 + SGRPROJ_BORDER_VERT,
            bj - r + SGRPROJ_BORDER_HORZ, bj + r + 1 + SGRPROJ_BORDER_HORZ)

\* C1: for every admitted radius and every box inside the padded plane, the
\* value boxsum_from_ii returns equals the brute-force sum of the samples
\* (and, from the squares image, of the squared samples) over the box.
C1_BoxSumIsBruteForce ==
  spc = "box" =>
    \A k \in InBoundsLanes :
      /\ sum1[k + 1] = BoxRectSum(box[1], box[2] + k, box[3])
      /\ LET sq == BoxRectSumSq(box[1], box[2] + k, box[3])
         IN  sq[1] < H16 /\ sum2[k + 1] = sq[1] * W16 + sq[2]

\* a box of radius 2 whose corners lie in entries of the squares image that
\* have wrapped, and whose sum is nevertheless the brute-force one
C1_Witness ==
  /\ spc = "box"
  /\ box[3] = 2
  /\ 0 \in InBoundsLanes
  /\ sum2[1] = 25 * MaxSample(12) * MaxSample(12)
  /\ RectSumSq(0, box[1] + 3 + SGRPROJ_BORDER_VERT, 0, box[2] + 3 + SGRPROJ_BORDER_HORZ)[1] >= H16

(***************************************************************************)
(* Properties of the whole filter (checked under SpecSgr).                 *)
(***************************************************************************)

FlatPlane == dgd.kind = "flat"

\* the destination indices inside the width x height unit
UnitSamples == {row * dst_stride + col : row \in 0 .. (height - 1), col \in 0 .. (width - 1)}

\* the destination indices some store has reached
StoredSamples == {k \in DOMAIN dst : dst[k] # DST_UNSET}

\* p as calc_ab computes it for the pixel at (row, col) with radius r
PAt(row, col, r) ==
  compute_p(boxsum_from_ii(Dtl, Origin(width) + row * buf_stride(width) + col,
                           buf_stride(width), r)[1],
            boxsum_from_ii(Ctl, Origin(width) + row * buf_stride(width) + col,
                           buf_stride(width), r)[1],
            sgr_bit_depth, (2 * r + 1) * (2 * r + 1))

\* p is 0 at every position of rows -1 .. height, columns -1 .. width (the
\* unit and the one-sample surround cross_sum reads), in both passes
AllPZero ==
  \A row \in -1 .. height : \A col \in -1 .. width : \A pass \in {0, 1} :
    PAt(row, col, PassR(eps, pass)) = 0

\* C8 as stated: on a flat plane of value v, at every bit depth, every sample
\* apply stores equals v and p is 0 for every pixel.
C8_Original ==
  (spc = "applied" /\ FlatPlane) =>
    /\ \A k \in StoredSamples : dst[k] = dgd.hi
    /\ AllPZero

\* C8, amended: on a flat plane of value v with bit depth 8 (either path),
\* every sample of the width x height unit that apply stores equals v, and p
\* is 0 for every pixel of the unit and of its one-sample surround.
C8_FlatPlaneEightBit ==
  (spc = "applied" /\ FlatPlane /\ sgr_bit_depth = 8) =>
    /\ \A k \in UnitSamples : dst[k] = dgd.hi
    /\ AllPZero

\* a flat 8-bit plane of the brightest value, filtered with the strongest
\* parameter set and written through the 16-bit path
C8_Witness ==
  /\ spc = "applied"
  /\ FlatPlane /\ sgr_bit_depth = 8 /\ highbd = 1
  /\ dgd.hi = 255
  /\ eps = 15
  /\ xqd = <<SGRPROJ_PRJ_MIN0, SGRPROJ_PRJ_MIN1>>
  /\ width = 2 /\ height = 2
  /\ \A k \in UnitSamples : dst[k] = 255
  /\ PAt(0, 0, 2) = 0

Clamp(x, lo, hi) == IF x < lo THEN lo ELSE IF x > hi THEN hi ELSE x

Reordered(perm) == [t \in 1 .. num_tiles |-> ec_ctxs[perm[t]]]

\* C11: for a fixed set of per-tile (CDF, count) inputs, every permutation
\* of the ec_ctxs array gives the same merged CDF as the order that was used.
C11_TileOrderIndependent ==
  tpc = "merged" =>
    \A perm \in Permutations(1 .. num_tiles) :
      av1_average_tile_coef_cdfs(Reordered(perm), num_tiles) = fc_cdf

\* three tiles were merged, two of them different with different non-zero counts
C11_Witness ==
  /\ tpc = "merged"
  /\ num_tiles = 3
  /\ ec_ctxs[1].cdf # ec_ctxs[2].cdf
  /\ ec_ctxs[1].count > 0
  /\ ec_ctxs[2].count > ec_ctxs[1].count
  /\ fc_cdf # ec_ctxs[1].cdf
  /\ fc_cdf # ec_ctxs[2].cdf

(***************************************************************************)
(* Properties of calc_ab (checked under SpecSgr).                          *)
(***************************************************************************)
\* calc_ab has just run; AbPass is the pass it ran for
AbDone == spc \in {"ab1", "ab2"}
AbPass == IF spc \in {"ab2", "ff2", "applied"} THEN 1 ELSE 0

\* the columns of one row calc_ab stores a lane for: whole blocks of eight
\* from column -1 on, so some lie past column width
AbStoredColumns == -1 .. (8 * ((width + 2 + 7) \div 8) - 2)

\* the index of position (row, col) in the a / b / integral arrays
AbIndex(row, col) == Origin(width) + row * buf_stride(width) + col

\* the strength multiplier s of the pass
AbStrength(pass) ==
  sgrproj_mtable(PassE(eps, pass), (2 * PassR(eps, pass) + 1) * (2 * PassR(eps, pass) + 1))

\* z as calc_ab computes it for the lane at (row, col)
ZAt(row, col, pass) == calc_z(PAt(row, col, PassR(eps, pass)), AbStrength(pass))

\* the exact product p * s does not fit 32 bits
ProductWraps(p, s) == p < 0 \/ (p \div 2) > (2147483647 \div s)

\* C12: for every lane calc_ab stores (also those past column width, and
\* those whose product p * s wraps), z lies in 0 .. 255, the stored a is the
\* table entry for z and lies in 0 .. SGRPROJ_SGR, and SGRPROJ_SGR - a is
\* not negative.
C12_ZIndexesTheTable ==
  AbDone =>
    \A row \in -1 .. height : \A col \in AbStoredColumns :
      LET z == ZAt(row, col, AbPass)
          a == Atl[AbIndex(row, col)]
      IN  /\ z >= 0 /\ z <= 255
          /\ a = x_by_xplus1(z, xbx0)
          /\ a >= 0 /\ a <= SGRPROJ_SGR
          /\ sub_epi32(SGRPROJ_SGR, a) >= 0

\* a lane of the unit whose product p * s wraps, and a lane past column width
\* whose p is negative
C12_Witness ==
  /\ AbDone
  /\ \E row \in 0 .. (height - 1) : \E col \in 0 .. (width - 1) :
       /\ PAt(row, col, PassR(eps, AbPass)) > 0
       /\ ProductWraps(PAt(row, col, PassR(eps, AbPass)), AbStrength(AbPass))
       /\ ZAt(row, col, AbPass) \in 0 .. 255
  /\ \E row \in -1 .. height : \E col \in AbStoredColumns :
       /\ col > width
       /\ PAt(row, col, PassR(eps, AbPass)) < 0
       /\ Atl[AbIndex(row, col)] \in 0 .. SGRPROJ_SGR

(***************************************************************************)
(* Properties of cross_sum (checked under SpecCross).                      *)
(***************************************************************************)
\* the entry at (row, col) of the neighbourhood of lane k: row and col in 0 .. 2
CrossAt(k, row, col) == xs_buf[10 * row + col + k]

\* 3 * x and 4 * x in 32 bits
Times3(x) == add_epi32(x, add_epi32(x, x))
Times4(x) == add_epi32(add_epi32(x, x), add_epi32(x, x))

\* 4 * (centre + edges) + 3 * (corners) of lane k, every term weighted by
\* itself, in 32 bits
CrossWeighted32(k) ==
  add_epi32(
    add_epi32(add_epi32(Times3(CrossAt(k, 0, 0)), Times4(CrossAt(k, 0, 1))),
              add_epi32(Times3(CrossAt(k, 0, 2)), Times4(CrossAt(k, 1, 0)))),
    add_epi32(
      add_epi32(add_epi32(Times4(CrossAt(k, 1, 1)), Times4(CrossAt(k, 1, 2))),
                add_epi32(Times3(CrossAt(k, 2, 0)), Times4(CrossAt(k, 2, 1)))),
      Times3(CrossAt(k, 2, 2))))

\* every entry of the neighbourhood of lane k is one the a or b map can hold
CrossSmall(k) ==
  \A row \in 0 .. 2 : \A col \in 0 .. 2 : CrossAt(k, row, col) \in 0 .. 1048575

\* the weighted sum in unbounded integers
CrossWeighted(k) ==
    4 * (CrossAt(k, 0, 1) + CrossAt(k, 1, 0) + CrossAt(k, 1, 1) + CrossAt(k, 1, 2)
           + CrossAt(k, 2, 1))
  + 3 * (CrossAt(k, 0, 0) + CrossAt(k, 0, 2) + CrossAt(k, 2, 0) + CrossAt(k, 2, 2))

\* C13: every lane of cross_sum is the 3x3 weighted sum with weight 3 on the
\* four corners and weight 4 on the centre and the four edges: in 32 bits for
\* all entries, and in unbounded integers for entries the a and b maps hold.
C13_CrossSumWeights ==
  xpc = "done" =>
    \A k \in 0 .. 7 :
      /\ xs_out[k + 1] = CrossWeighted32(k)
      /\ CrossSmall(k) => xs_out[k + 1] = CrossWeighted(k)

\* a lane whose corners are the largest 32-bit value, so that the sum wraps,
\* next to a lane of map entries with different corners and edges
C13_Witness ==
  /\ xpc = "done"
  /\ \E k \in 0 .. 7 :
       /\ CrossAt(k, 0, 0) = 2147483647
       /\ CrossAt(k, 1, 1) # 0
       /\ xs_out[k + 1] = CrossWeighted32(k)
  /\ \E k \in 0 .. 7 :
       /\ CrossSmall(k)
       /\ CrossAt(k, 0, 0) # CrossAt(k, 0, 1)
       /\ CrossAt(k, 0, 0) > 0
       /\ xs_out[k + 1] = CrossWeighted(k)
       /\ xs_out[k + 1] > 0

(***************************************************************************)
(* Properties of the costs of uniform CDFs (checked under SpecUniform).    *)
(***************************************************************************)
\* the number of symbols of the CDF whose sentinel the walk stopped at
UniformSyms == i + 1

\* the probability every symbol but the last has
UniformStep == CDF_PROB_TOP \div UniformSyms

\* the CDF is the uniform one: adjacent inverse cumulative values differ by
\* CDF_PROB_TOP / N and the last one is the sentinel
IsUniformCdf ==
  /\ \A j \in 0 .. (UniformSyms - 2) : AOM_ICDF(cdf[j]) = (j + 1) * UniformStep
  /\ cdf[UniformSyms - 1] = AOM_ICDF(CDF_PROB_TOP)

\* the step of av1_prob_cost at the entry the symbols of probability p15 use:
\* what rounding the last symbol's probability to the next entry can change
CostTableStep(p15) ==
  LET q == get_prob(p15 * (2 ^ (CDF_PROB_BITS - 1 - get_msb(p15))), CDF_PROB_TOP)
  IN  IF q < 255 THEN av1_cost_zero(q) - av1_cost_zero(q + 1) ELSE 0

\* C14: on a uniform CDF over N symbols the N cost entries are all written,
\* differ by no more than one step of the cost table, and are identical when
\* N divides CDF_PROB_TOP.
C14_UniformCostsEqual ==
  (cpc = "done" /\ IsUniformCdf) =>
    /\ \A a \in 0 .. (UniformSyms - 1) : costs[a] # COST_UNSET
    /\ \A a \in 0 .. (UniformSyms - 1) : \A b \in 0 .. (UniformSyms - 1) :
         /\ costs[a] - costs[b] <= CostTableStep(UniformStep)
         /\ (CDF_PROB_TOP % UniformSyms = 0) => costs[a] = costs[b]

\* eleven symbols: ten of probability 2978 and one of 2988, whose costs are
\* one table step apart
C14_Witness ==
  /\ cpc = "done"
  /\ IsUniformCdf
  /\ UniformSyms = 11
  /\ inv_map # NULL
  /\ p15s[1] = 2978 /\ p15s[11] = 2988
  /\ costs[CostIndex(inv_map, 0)] = costs[CostIndex(inv_map, 10)] + CostTableStep(2978)
  /\ CostTableStep(2978) > 0

(***************************************************************************)
(* Properties of the reads of calc_ab (checked under SpecII).              *)
(***************************************************************************)
\* the lanes of the block at column box[2] that belong to columns -1 .. width
PositionLanes == {k \in 0 .. 7 : box[2] + k <= width}

\* the integral-image elements the two boxsum_from_ii calls read for lane k
BoxReads(k) ==
  LET c == boxsum_corners(Origin(width) + box[1] * buf_stride(width) + box[2],
                          buf_stride(width), box[3])
  IN  {c[1] + k, c[2] + k, c[3] + k, c[4] + k}

\* row and column of an element counted from the tl pointer
IIRow(idx) == idx \div buf_stride(width)
IICol(idx) == idx % buf_stride(width)

\* C15: for every radius the assertion admits, every integral-image element
\* read for a position of rows -1 .. height, columns -1 .. width lies in rows
\* 0 .. height_ext and columns 0 .. width_ext counted from the tl pointer,
\* and holds the sum integral_images wrote there.
C15_ReadsInsideIntegralImage ==
  spc = "box" =>
    \A k \in PositionLanes : \A idx \in BoxReads(k) :
      /\ idx >= 0
      /\ IIRow(idx) <= height_ext(height)
      /\ IICol(idx) <= width_ext(width)
      /\ Dtl[idx] = RectSum(0, IIRow(idx), 0, IICol(idx))

\* the box of radius 2 at the last position (height, width): its bottom-right
\* corner is the last element of the region, its top-left one is inside it
C15_Witness ==
  /\ spc = "box"
  /\ box[1] = height /\ box[3] = 2
  /\ \E k \in PositionLanes :
       /\ box[2] + k = width
       /\ \E idx \in BoxReads(k) :
            IIRow(idx) = height_ext(height) /\ IICol(idx) = width_ext(width) /\ Dtl[idx] > 0
  /\ width = 10

(***************************************************************************)
(* Properties of compute_p (checked under SpecII).                         *)
(***************************************************************************)
\* ROUND_POWER_OF_TWO(x, shift) in unbounded integers
RoundShift(x, shift) == (x + ((2 ^ shift) \div 2)) \div (2 ^ shift)

\* the window size of the box sums in sum1, sum2
BoxN == (2 * box[3] + 1) * (2 * box[3] + 1)

\* sum1' and sum2' of lane k: the sums at 8 bits, the round-shifted sums above
BoxSum1Scaled(k) == RoundShift(sum1[k + 1], sgr_bit_depth - 8)
BoxSum2Scaled(k) == RoundShift(sum2[k + 1], 2 * (sgr_bit_depth - 8))

\* n * sum2' - sum1'^2 in unbounded integers, n * sum2' raised to at least sum1'^2
PExact(k) ==
  LET nb == BoxN * BoxSum2Scaled(k)
      bb == BoxSum1Scaled(k) * BoxSum1Scaled(k)
  IN  (IF nb < bb THEN bb ELSE nb) - bb

\* C16: for bit depths 8, 10, 12 and radii up to 2, on the box sums of n
\* samples and of their squares, compute_p returns a non-negative p equal to
\* n * sum2' - sum1'^2 in unbounded integers; the sums and the rounded sums
\* do not wrap, n * sum2' stays below 2^31 and the operand of the 16-bit
\* multiply-add stays below 2^15.
C16_ComputePExact ==
  spc = "box" =>
    \A k \in InBoundsLanes :
      /\ sum1[k + 1] >= 0 /\ sum2[k + 1] >= 0
      /\ sum2[k + 1] <= 2147483647 - ((2 ^ (2 * (sgr_bit_depth - 8))) \div 2)
      /\ BoxSum1Scaled(k) < 32768
      /\ BoxSum2Scaled(k) <= 2147483647 \div BoxN
      /\ compute_p(sum1[k + 1], sum2[k + 1], sgr_bit_depth, BoxN) = PExact(k)
      /\ compute_p(sum1[k + 1], sum2[k + 1], sgr_bit_depth, BoxN) >= 0
      /\ sgr_bit_depth = 8 =>
           BoxN * sum2[k + 1] >= sum1[k + 1] * sum1[k + 1]

\* a 12-bit box of 25 samples with a positive p next to the largest sum of
\* squares the bit depth allows
C16_Witness ==
  /\ spc = "box"
  /\ sgr_bit_depth = 12 /\ box[3] = 2
  /\ \E k \in InBoundsLanes :
       /\ compute_p(sum1[k + 1], sum2[k + 1], sgr_bit_depth, BoxN) > 0
       /\ compute_p(sum1[k + 1], sum2[k + 1], sgr_bit_depth, BoxN) = PExact(k)
       /\ sum2[k + 1] >= 16777216

(***************************************************************************)
(* Properties of the two passes (checked under SpecSgr).                   *)
(***************************************************************************)
\* the a and b maps of a run of calc_ab for one pass alone, on cleared arrays
SoloAb(pass) ==
  calc_ab(ZeroBuf(BufElts(width, height)), ZeroBuf(BufElts(width, height)), Ctl, Dtl,
          Origin(width), width, height, buf_stride(width),
          PassE(eps, pass), sgr_bit_depth, PassR(eps, pass), xbx0)

\* the candidate of a run of one pass alone, given its a and b maps
SoloFlt(ab) ==
  final_filter([k \in 0 .. (FltElts(width, height) - 1) |-> FLT_UNSET], width,
               ab.A, ab.B, Origin(width), buf_stride(width), dgd, width, height, highbd)

\* the indices of the valid output pixels in flt1 / flt2 (flt_stride = width)
ValidFlt == {row * width + col : row \in 0 .. (height - 1), col \in 0 .. (width - 1)}

\* both passes have run
BothPassesDone == spc = "ff2"

\* C17: after both passes the integral images still are the ones built from
\* the input, every a / b element final_filter reads for a valid pixel holds
\* the value calc_ab of pass 2 computes, and on the valid pixels flt2 is the
\* candidate of a run of pass 2 alone and flt1 that of a run of pass 1 alone.
C17_PassesIndependent ==
  BothPassesDone =>
    LET ab2 == SoloAb(1)
        solo2 == SoloFlt(ab2)
        solo1 == SoloFlt(SoloAb(0))
    IN  /\ \A y \in 0 .. height_ext(height) : \A x \in 0 .. width_ext(width) :
             /\ Entry(Dtl, y, x) = RectSum(0, y, 0, x)
             /\ LET sq == RectSumSq(0, y, 0, x)
                IN  Entry(Ctl, y, x) = Word32(sq[1] % W16, sq[2])
        /\ \A row \in -1 .. height : \A col \in -1 .. width :
             /\ Atl[AbIndex(row, col)] = ab2.A[AbIndex(row, col)]
             /\ Btl[AbIndex(row, col)] = ab2.B[AbIndex(row, col)]
        /\ \A k \in ValidFlt : flt2[k] = solo2[k] /\ flt1[k] = solo1[k]

\* a textured plane on which the two candidates differ, so that a value left
\* over from pass 1 would show in flt2
C17_Witness ==
  /\ BothPassesDone
  /\ width = 2 /\ height = 2
  /\ LET ab1 == SoloAb(0)
         solo2 == SoloFlt(SoloAb(1))
     IN  /\ \E k \in ValidFlt : flt1[k] # flt2[k] /\ flt2[k] = solo2[k]
         /\ \E row \in -1 .. height : \E col \in -1 .. width :
              ab1.A[AbIndex(row, col)] # Atl[AbIndex(row, col)]

(***************************************************************************)
(* Properties of the stores of final_filter (checked under SpecSgr).       *)
(***************************************************************************)
\* the filtered value final_filter computes for the pixel at (row, col)
PixelFiltered(row, col) ==
  LET a == cross_sum(Atl, AbIndex(row, col), buf_stride(width))[1]
      b == cross_sum(Btl, AbIndex(row, col), buf_stride(width))[1]
      src == IF highbd = 1 THEN yy256_load_extend_16_32(dgd, row, col)[1]
                           ELSE yy256_load_extend_8_32(dgd, row, col)[1]
      shift == SGRPROJ_SGR_BITS + 5 - SGRPROJ_RST_BITS
  IN  srai_epi32(add_epi32(add_epi32(madd_epi16(a, src), b), round_for_shift(shift)), shift)

\* final_filter has just finished; the candidate it wrote
FilterDone == spc \in {"ff1", "ff2"}
FilterOut == IF spc = "ff1" THEN flt1 ELSE flt2

\* the elements of the width x height region that a store of another row, or
\* the upper lanes of the store before the owning one, reached as well
SpilledInto ==
  {k \in ValidFlt :
     \/ \E row \in 0 .. (height - 1) : \E j \in {c \in 0 .. (width - 1) : c % 4 = 0} :
          /\ row # k \div width
          /\ k \in (row * width + j) .. (row * width + j + 7)
     \/ (k % width) >= 4}

\* C18: once final_filter has finished (flt_stride = width), every element
\* of the width x height region holds the filtered value of its pixel, the
\* elements earlier stores spilled into or overlapped included.
C18_FinalFilterRegion ==
  FilterDone =>
    \A row \in 0 .. (height - 1) : \A col \in 0 .. (width - 1) :
      FilterOut[row * width + col] = PixelFiltered(row, col)

\* a unit of two rows of five pixels on a textured plane: each row takes two
\* overlapping stores, the stores of row 0 spill into row 1, and the spilled
\* value differs from the one the pixel ends with
C18_Witness ==
  /\ FilterDone
  /\ width = 5 /\ height = 2
  /\ 4 \in SpilledInto /\ 5 \in SpilledInto
  /\ FilterOut[5] = PixelFiltered(1, 0)
  /\ PixelFiltered(0, 5) # PixelFiltered(1, 0)

(***************************************************************************)
(* Properties of the stores of apply (checked under SpecSgr).              *)
(***************************************************************************)
\* width rounded up to the next multiple of 16
RoundUp16(w) == ((w + 15) \div 16) * 16

====
